---------------------------- MODULE Spec2Model ----------------------------
(***************************************************************************)
(* Charge deposition (Source/Particles/Deposition/ChargeDeposition.H) and  *)
(* PEC boundary kernels (Source/BoundaryConditions/WarpX_PEC.H) of WarpX.  *)
(*                                                                         *)
(* Real numbers are modelled exactly, in fixed point:                      *)
(*   - a grid coordinate is an integer count of 1/Q cells (Q = 2*HalfQ);   *)
(*   - a shape-factor weight of order o is an integer over ShapeScale(o);  *)
(*   - cos/sin of the azimuthal angle are integers over AngDen.            *)
(* Floating-point rounding is outside the model.                           *)
(***************************************************************************)
EXTENDS Integers, Sequences, FiniteSets, TLC

VARIABLES
    cfg,        \* compile-time configuration and call parameters
    particles,  \* the particle batch: sequence of [xp, yp, zp, wp, ion_lev]
    rho_arr,    \* destination grid array: <<i, j, k, n>> -> value
    pc,         \* direct kernel: per particle, number of atomic adds issued
    shared,     \* tiled kernel: per block, the linear shared memory
    tpc,        \* tiled kernel: per block and thread, [ph, n, m]
    stray,      \* tiled kernel: adds addressed beyond the shared allocation
    field,      \* PEC kernels: the field array, cell -> value
    ppc,        \* PEC kernels: control state of the running operation
    host        \* host side of a kernel call: position, budget and cost ledger

vars == <<cfg, particles, rho_arr, pc, shared, tpc, stray, field, ppc, host>>

(***************************************************************************)
(* Bounds of the model.                                                    *)
(***************************************************************************)
HalfQ == 2      \* sub-cell positions per half cell
MaxNp == 2      \* particles in a concurrently deposited batch
NCell == 1      \* cells per axis in which particles are placed
MaxModes == 2   \* largest n_rz_azimuthal_modes

Q == 2 * HalfQ

NODE == 1
CELL == 0

\* denominator of the direction cosines xp/rp, yp/rp of the modelled angles
AngDen == 5

(***************************************************************************)
(* Shape factors (Particles/ShapeFactors.H, Compute_shape_factor).         *)
(***************************************************************************)
ShapeScale(o) ==
    CASE o = 0 -> 1
      [] o = 1 -> Q
      [] o = 2 -> 8 * Q * Q
      [] o = 3 -> 6 * Q * Q * Q

\* x is the grid coordinate in 1/Q cells; returns the leftmost grid point j
\* and the order+1 weights s (over ShapeScale(o)).
Compute_shape_factor(o, x) ==
    CASE o = 0 ->
           [j |-> (x + HalfQ) \div Q, s |-> <<1>>]
      [] o = 1 ->
           LET j == x \div Q
               xint == x - j * Q
           IN  [j |-> j, s |-> <<Q - xint, xint>>]
      [] o = 2 ->
           LET j == (x + HalfQ) \div Q
               xint == x - j * Q
           IN  [j |-> j - 1,
                s |-> << (Q - 2 * xint) * (Q - 2 * xint),
                         6 * Q * Q - 8 * xint * xint,
                         (Q + 2 * xint) * (Q + 2 * xint) >>]
      [] o = 3 ->
           LET j == x \div Q
               xint == x - j * Q
               y == Q - xint
           IN  [j |-> j - 1,
                s |-> << y * y * y,
                         4 * Q * Q * Q - 6 * xint * xint * Q + 3 * xint * xint * xint,
                         4 * Q * Q * Q - 6 * y * y * Q + 3 * y * y * y,
                         xint * xint * xint >>]

(***************************************************************************)
(* Per-particle quantities of the deposition kernels.                      *)
(***************************************************************************)
Is2D(g) == g \in {"XZ", "RZ"}

\* invvol: 1/cell_volume, by dimensionality
invvol(c) ==
    CASE c.geom = "1D_Z" -> c.dxi[3]
      [] Is2D(c.geom)    -> c.dxi[1] * c.dxi[3]
      [] c.geom = "3D"   -> c.dxi[1] * c.dxi[2] * c.dxi[3]

\* wq without the ionization level
wqNoLevel(c, p) == c.q * p.wp * invvol(c)

\* wq = q*wp[ip]*invvol, times ion_lev[ip] when do_ionization
wq(c, p) ==
    LET w == c.q * p.wp * invvol(c)
    IN  IF c.do_ionization THEN w * p.ion_lev ELSE w

\* std::sqrt on the perfect squares the batch is drawn from
ISqrt(n) == CHOOSE r \in 0..n : r * r = n

rp(p) == ISqrt(p.xp * p.xp + p.yp * p.yp)

\* xy0 = Complex{costheta, sintheta}, over AngDen
xy0(p) ==
    IF rp(p) > 0
    THEN <<(AngDen * p.xp) \div rp(p), (AngDen * p.yp) \div rp(p)>>
    ELSE <<AngDen, 0>>

CMul(a, b) == <<a[1] * b[1] - a[2] * b[2], a[1] * b[2] + a[2] * b[1]>>

\* xy never advanced by xy = xy*xy0
xyAtFrozen(p, imode) == xy0(p)

\* value of xy at iteration imode of the mode loop (xy = xy*xy0), over AngDen^imode
RECURSIVE xyAt(_, _)
xyAt(p, imode) == IF imode = 1 THEN xy0(p) ELSE CMul(xyAt(p, imode - 1), xy0(p))

\* grid coordinate along x (radial in RZ), y, z
xgrid(c, p) ==
    IF c.geom = "RZ" THEN (rp(p) - c.xyzmin[1]) * c.dxi[1]
                     ELSE (p.xp - c.xyzmin[1]) * c.dxi[1]
ygrid(c, p) == (p.yp - c.xyzmin[2]) * c.dxi[2]
zgrid(c, p) == (p.zp - c.xyzmin[3]) * c.dxi[3]

WARPX_ZINDEX(g) == CASE g = "1D_Z" -> 1 [] Is2D(g) -> 2 [] g = "3D" -> 3

\* the cell-centred evaluation on every axis
ShapeAlongCell(c, x, axis) == Compute_shape_factor(c.depos_order, x - HalfQ)

\* shape factor along an axis: x for NODE, x - 0.5 for CELL
ShapeAlong(c, x, axis) ==
    IF c.rho_type[axis] = NODE
    THEN Compute_shape_factor(c.depos_order, x)
    ELSE Compute_shape_factor(c.depos_order, x - HalfQ)

sfx(c, p) == ShapeAlong(c, xgrid(c, p), 1)
sfy(c, p) == ShapeAlong(c, ygrid(c, p), 2)
sfz(c, p) == ShapeAlong(c, zgrid(c, p), WARPX_ZINDEX(c.geom))


(***************************************************************************)
(* The atomic adds one particle issues, in the order of the deposit loops. *)
(***************************************************************************)
NDim(g) == CASE g = "1D_Z" -> 1 [] Is2D(g) -> 2 [] g = "3D" -> 3

\* points of the stencil along one axis: ix = 0 .. depos_order
StencilLenExclusive(c) == c.depos_order
StencilLen(c) == c.depos_order + 1

NPts(c) ==
    CASE NDim(c.geom) = 1 -> StencilLen(c)
      [] NDim(c.geom) = 2 -> StencilLen(c) * StencilLen(c)
      [] NDim(c.geom) = 3 -> StencilLen(c) * StencilLen(c) * StencilLen(c)

\* the mode loop runs imode = 1 .. n_rz_azimuthal_modes-1, two adds each
ModeAdds(c) ==
    IF c.geom = "RZ" /\ c.n_rz_azimuthal_modes > 1
    THEN 2 * (c.n_rz_azimuthal_modes - 1) ELSE 0

PerPoint(c) == 1 + ModeAdds(c)

NAdds(c) == NPts(c) * PerPoint(c)

\* number of components of the destination array
NComp(c) == IF c.geom = "RZ" THEN 2 * c.n_rz_azimuthal_modes - 1 ELSE 1

\* the n-th add (n = 0 ..) of particle p: [idx |-> <<i, j, k, comp>>, v |-> value]
Add(c, p, n) ==
    LET L  == StencilLen(c)
        pt == n \div PerPoint(c)
        r  == n % PerPoint(c)
        w  == wq(c, p)
    IN  CASE c.geom = "1D_Z" ->
               LET sz == sfz(c, p)
                   iz == pt
               IN  [idx |-> <<c.lo[1] + sz.j + iz, 0, 0, 0>>,
                    v   |-> sz.s[iz + 1] * w]
          [] Is2D(c.geom) ->
               LET sx == sfx(c, p)
                   sz == sfz(c, p)
                   iz == pt \div L
                   ix == pt % L
                   t  == sx.s[ix + 1] * sz.s[iz + 1] * w
                   imode == (r + 1) \div 2
                   xy == xyAt(p, imode)
               IN  [idx |-> <<c.lo[1] + sx.j + ix, c.lo[2] + sz.j + iz, 0, r>>,
                    v   |-> IF r = 0 THEN t
                            ELSE IF r = 2 * imode - 1 THEN 2 * t * xy[1]
                            ELSE 2 * t * xy[2]]
          [] c.geom = "3D" ->
               LET sx == sfx(c, p)
                   sy == sfy(c, p)
                   sz == sfz(c, p)
                   iz == pt \div (L * L)
                   iy == (pt \div L) % L
                   ix == pt % L
               IN  [idx |-> <<c.lo[1] + sx.j + ix, c.lo[2] + sy.j + iy,
                              c.lo[3] + sz.j + iz, 0>>,
                    v   |-> sx.s[ix + 1] * sy.s[iy + 1] * sz.s[iz + 1] * w]

\* amrex::Gpu::Atomic::AddNoRet(&arr(idx), v): an indivisible read-modify-write
StoreNoRet(arr, idx, v) == [arr EXCEPT ![idx] = v]
AtomicAddNoRet(arr, idx, v) == [arr EXCEPT ![idx] = @ + v]

(***************************************************************************)
(* The destination array of the deposition kernels.                        *)
(***************************************************************************)
\* index range of the array along array axis a (1..3); the caller sizes the
\* array so that every stencil of the batch lies inside it
ArrLo(c, a) == IF a <= NDim(c.geom) THEN c.lo[a] - 2 ELSE 0
ArrHi(c, a) == IF a <= NDim(c.geom) THEN c.lo[a] + c.ncell[a] + 1 ELSE 0

ArrCells(c) ==
    { <<i, j, k, n>> : i \in ArrLo(c, 1)..ArrHi(c, 1), j \in ArrLo(c, 2)..ArrHi(c, 2),
                       k \in ArrLo(c, 3)..ArrHi(c, 3), n \in 0..(NComp(c) - 1) }

\* the array's content before the call
Rho0(c, idx) ==
    IF c.rho0 = "zero" THEN 0 ELSE 1 + idx[1] + 2 * idx[2] + 3 * idx[3] + 5 * idx[4]

(***************************************************************************)
(* doChargeDepositionShapeN: amrex::ParallelFor over the particles; each   *)
(* worker issues its atomic adds in loop order, workers interleave freely. *)
(***************************************************************************)
DepositStep(ip) ==
    /\ cfg.kernel = "direct"
    /\ pc[ip] < NAdds(cfg)
    /\ LET a == Add(cfg, particles[ip], pc[ip])
       IN  rho_arr' = AtomicAddNoRet(rho_arr, a.idx, a.v)
    /\ pc' = [pc EXCEPT ![ip] = @ + 1]
    /\ UNCHANGED <<cfg, particles, shared, tpc, stray, field, ppc, host>>

DirectDone == \A ip \in DOMAIN pc : pc[ip] = NAdds(cfg)

(***************************************************************************)
(* Particle batches and configurations.                                    *)
(***************************************************************************)
\* positions along an axis whose grid coordinate lies in the NCell cells
Positions(d) == { x \in 0..(NCell * Q - 1) : x * d < NCell * Q }

\* transverse positions (xp, yp) in RZ: rp and the direction cosines are exact
RZPairs(d) ==
    { xy \in ((0 - NCell * Q)..(NCell * Q)) \X ((0 - NCell * Q)..(NCell * Q)) :
        \E r \in Positions(d) :
            /\ r * r = xy[1] * xy[1] + xy[2] * xy[2]
            /\ r > 0 => (AngDen * xy[1]) % r = 0 /\ (AngDen * xy[2]) % r = 0 }

\* the (species charge, weight, ionization level) of the modelled particles;
\* level 0 stands for "no level" when ion_lev is a null pointer
Weights == {1, 2}
IonLevels(c) == IF c.do_ionization THEN {0, 1, 2} ELSE {0}

Particle(x, y, z, w, l) == [xp |-> x, yp |-> y, zp |-> z, wp |-> w, ion_lev |-> l]

\* a few particles of one cell, whose stencils overlap
ConcParticles(c) ==
    IF c.geom = "RZ"
    THEN { Particle(xy[1], xy[2], 1, 1, 0) : xy \in {<<1, 0>>, <<0, Q - 1>>} }
    ELSE { Particle(x, 0, z, 1, 0) :
             x \in (IF c.geom = "1D_Z" THEN {0} ELSE {1}), z \in {1, Q - 1} }

\* every sub-cell position
SingleParticles(c) ==
    CASE c.geom = "1D_Z" ->
           { Particle(0, 0, z, w, l) :
               z \in Positions(c.dxi[3]), w \in Weights, l \in IonLevels(c) }
      [] c.geom = "XZ" ->
           { Particle(x, 0, z, w, l) :
               x \in Positions(c.dxi[1]), z \in Positions(c.dxi[3]),
               w \in Weights, l \in IonLevels(c) }
      [] c.geom = "RZ" ->
           { Particle(xy[1], xy[2], z, 1, l) :
               xy \in RZPairs(c.dxi[1]), z \in {1, Q - 1}, l \in IonLevels(c) }
      [] c.geom = "3D" ->
           { Particle(x, y, z, 2, l) :
               x \in 0..(Q - 1), y \in Positions(c.dxi[2]) \cap 0..(Q - 1),
               z \in 0..(Q - 1), l \in IonLevels(c) }

RhoTypes(g) ==
    CASE g = "1D_Z" -> { <<t, CELL, CELL>> : t \in {NODE, CELL} }
      [] Is2D(g)    -> { <<t, u, CELL>> : t \in {NODE, CELL}, u \in {NODE, CELL} }
      [] g = "3D"   -> { <<t, u, v>> : t \in {NODE, CELL}, u \in {NODE, CELL},
                                       v \in {NODE, CELL} }

DepositCfg(kernel, g, o, ty, d, q, m, ion, r0) ==
    [kernel |-> kernel, geom |-> g, depos_order |-> o, rho_type |-> ty,
     dxi |-> d, xyzmin |-> <<0, 0, 0>>, lo |-> <<0, 0, 0>>, q |-> q,
     n_rz_azimuthal_modes |-> m, do_ionization |-> ion, rho0 |-> r0,
     ncell |-> <<NCell, NCell, NCell>>]

Idle == <<>>

\* state before the dispatch of the direct kernel on batch ps
DirectStart(c, ps) ==
    /\ cfg = c
    /\ particles = ps
    /\ rho_arr = [idx \in ArrCells(c) |-> Rho0(c, idx)]
    /\ pc = [ip \in DOMAIN ps |-> 0]
    /\ shared = Idle /\ tpc = Idle /\ stray = Idle /\ field = Idle /\ ppc = Idle
    /\ host = Idle

Batches(ps, n) == UNION { [1..k -> ps] : k \in 1..n }

\* concurrent batches: a few positions, every order in 1D
DirectCfgs ==
    { DepositCfg("direct", g, o, ty, <<1, 1, 1>>, 1, MaxModes, FALSE, "ramp") :
        g \in {"1D_Z", "RZ"}, o \in 0..3, ty \in {<<NODE, CELL, CELL>>, <<CELL, NODE, CELL>>} }

InitDirect ==
    \E c \in { d \in DirectCfgs : d.geom = "RZ" => d.depos_order = 1 } :
        \E ps \in Batches(ConcParticles(c), MaxNp) : DirectStart(c, ps)

NextDirect == \E ip \in DOMAIN pc : DepositStep(ip)

SpecDirect == InitDirect /\ [][NextDirect]_vars

\* one particle alone on a zero grid: every geometry, order, staggering and
\* sub-cell position
DxiSet(g) ==
    CASE g = "1D_Z" -> {<<1, 1, 1>>, <<1, 1, 2>>}
      [] Is2D(g)    -> {<<1, 1, 1>>, <<2, 1, 1>>}
      [] g = "3D"   -> {<<1, 1, 1>>, <<1, 2, 1>>}

\* the orders whose weights, times the largest wq, fit 32-bit integers
Orders(g) ==
    { o \in 0..3 :
        NDim(g) = 3 =>
            ShapeScale(o) * ShapeScale(o) <= 2147483647 \div (8 * ShapeScale(o)) }

SingleCfgs ==
    UNION { { DepositCfg("direct", g, o, ty, d, q, m, ion, "zero") :
                o \in Orders(g), ty \in RhoTypes(g), d \in DxiSet(g),
                q \in (IF g = "1D_Z" THEN {1, 0 - 1} ELSE {0 - 1}),
                m \in (IF g = "RZ" THEN {1, MaxModes} ELSE {1}),
                ion \in (IF g = "3D" THEN {FALSE} ELSE {FALSE, TRUE}) } :
            g \in {"1D_Z", "XZ", "RZ", "3D"} }

InitSingle ==
    \E c \in SingleCfgs : \E p \in SingleParticles(c) : DirectStart(c, <<p>>)

SpecSingle == InitSingle /\ [][NextDirect]_vars

(***************************************************************************)
(* Sums used to state the results of a deposition.                         *)
(***************************************************************************)
\* contribution of the first n adds of particle p to cell idx
RECURSIVE SumAdds(_, _, _, _)
SumAdds(c, p, idx, n) ==
    IF n = 0 THEN 0
    ELSE LET a == Add(c, p, n - 1)
         IN  (IF a.idx = idx THEN a.v ELSE 0) + SumAdds(c, p, idx, n - 1)

\* contribution of the first k particles of the batch to cell idx
RECURSIVE SumBatch(_, _, _, _)
SumBatch(c, ps, idx, k) ==
    IF k = 0 THEN 0
    ELSE SumAdds(c, ps[k], idx, NAdds(c)) + SumBatch(c, ps, idx, k - 1)

RECURSIVE SumCells(_, _)
SumCells(arr, S) ==
    IF S = {} THEN 0
    ELSE LET x == CHOOSE y \in S : TRUE IN arr[x] + SumCells(arr, S \ {x})

Mode0Cells(c) == { idx \in ArrCells(c) : idx[4] = 0 }

\* ShapeScale(order)^NDim: the scale of a tensor-product weight
TensorScale(c) ==
    CASE NDim(c.geom) = 1 -> ShapeScale(c.depos_order)
      [] NDim(c.geom) = 2 -> ShapeScale(c.depos_order) * ShapeScale(c.depos_order)
      [] NDim(c.geom) = 3 ->
           ShapeScale(c.depos_order) * ShapeScale(c.depos_order) * ShapeScale(c.depos_order)

(***************************************************************************)
(* C1: at the end of the dispatch of doChargeDepositionShapeN, whatever    *)
(* the interleaving of the per-particle workers, every cell holds its      *)
(* initial value plus the sum of all the contributions addressed to it (no *)
(* atomic add is lost); the final grid is a function of the batch and the  *)
(* initial grid alone, so two runs end with identical grids.               *)
(***************************************************************************)
C1_NoLostUpdate ==
    (cfg.kernel = "direct" /\ DirectDone) =>
        \A idx \in ArrCells(cfg) :
            rho_arr[idx] = Rho0(cfg, idx) + SumBatch(cfg, particles, idx, Len(particles))

\* two workers have finished and both added a non-zero amount to one cell
C1_Witness ==
    /\ cfg.kernel = "direct" /\ DirectDone /\ Len(particles) >= 2
    /\ \E idx \in ArrCells(cfg) :
          /\ SumAdds(cfg, particles[1], idx, NAdds(cfg)) # 0
          /\ SumAdds(cfg, particles[2], idx, NAdds(cfg)) # 0
          /\ rho_arr[idx] # Rho0(cfg, idx)

\* the mode-0 cells holding a non-zero value (the only ones that count in a sum)
NonZeroCells == { idx \in Mode0Cells(cfg) : rho_arr[idx] # 0 }

(***************************************************************************)
(* C2 as stated: one particle of weight w of a species of charge q,        *)
(* deposited alone on an all-zero grid: the mode-0 cells sum, times the    *)
(* cell volume, to q*w (over TensorScale).                                 *)
(***************************************************************************)
C2_SumIsQW ==
    (cfg.kernel = "direct" /\ DirectDone /\ Len(particles) = 1 /\ cfg.rho0 = "zero") =>
        SumCells(rho_arr, NonZeroCells)
            = cfg.q * particles[1].wp * invvol(cfg) * TensorScale(cfg)

(***************************************************************************)
(* C2 amended: the mode-0 cells sum, times the cell volume, to q*w when no *)
(* ionization level is supplied and to q*w*ion_lev when one is, whatever   *)
(* the sub-cell position, the staggering of each axis and the order.       *)
(***************************************************************************)
C2_SumIsParticleCharge ==
    (cfg.kernel = "direct" /\ DirectDone /\ Len(particles) = 1 /\ cfg.rho0 = "zero") =>
        SumCells(rho_arr, NonZeroCells)
            = (IF cfg.do_ionization
               THEN cfg.q * particles[1].wp * particles[1].ion_lev
               ELSE cfg.q * particles[1].wp) * invvol(cfg) * TensorScale(cfg)

\* a cubic-order particle off the grid points has been deposited on a
\* cell-centred axis, with an ionization level supplied
C2_Witness ==
    /\ cfg.kernel = "direct" /\ DirectDone /\ Len(particles) = 1 /\ cfg.rho0 = "zero"
    /\ cfg.depos_order = 3 /\ cfg.do_ionization /\ particles[1].ion_lev = 2
    /\ cfg.rho_type[1] = CELL
    /\ particles[1].zp % Q # 0
    /\ SumCells(rho_arr, NonZeroCells) # 0

(***************************************************************************)
(* doChargeDepositionSharedShapeN, CUDA/HIP build: one block per tile, the *)
(* threads of a block stride over the particles of the tile and scatter    *)
(* into a buffer in shared memory, which is then added to rho_arr.         *)
(***************************************************************************)
BlockDim == 2      \* threads per block (threads_per_block, scaled down)
NTiles == 2        \* tiles along the first axis of the particle box

Axes == 1..3

\* boxes are [lo, hi] with three index ranges; an unused axis is 0..0
Active(c, a) == a <= NDim(c.geom)

\* the particle box: cells 0 .. ncell-1 along each used axis
ParticleBox(c) ==
    [lo |-> <<0, 0, 0>>,
     hi |-> [a \in Axes |-> IF Active(c, a) THEN c.ncell[a] - 1 ELSE 0]]

\* amrex::convert(box, ix_type): a nodal axis has one more point
Convert(c, bx) ==
    [lo |-> bx.lo,
     hi |-> [a \in Axes |->
               IF Active(c, a) /\ c.rho_type[a] = NODE THEN bx.hi[a] + 1 ELSE bx.hi[a]]]

Grow(c, bx, n) ==
    [lo |-> [a \in Axes |-> IF Active(c, a) THEN bx.lo[a] - n ELSE bx.lo[a]],
     hi |-> [a \in Axes |-> IF Active(c, a) THEN bx.hi[a] + n ELSE bx.hi[a]]]

BoxLen(bx, a) == bx.hi[a] - bx.lo[a] + 1
NumPts(bx) == BoxLen(bx, 1) * BoxLen(bx, 2) * BoxLen(bx, 3)

\* cell index of a particle in the particle box:
\* floor((xp - plo)*dxi) + domain.smallEnd(), per axis, from xp, (yp,) zp
CellIndex(c, p) ==
    CASE c.geom = "1D_Z" -> <<zgrid(c, p) \div Q, 0, 0>>
      [] Is2D(c.geom)    -> <<((p.xp - c.xyzmin[1]) * c.dxi[1]) \div Q, zgrid(c, p) \div Q, 0>>
      [] c.geom = "3D"   ->
           <<((p.xp - c.xyzmin[1]) * c.dxi[1]) \div Q, ygrid(c, p) \div Q, zgrid(c, p) \div Q>>

\* getTileIndex(iv, box, true, bin_size, tbx): the tile box holding cell iv
TileBox(c, iv) ==
    LET bx == ParticleBox(c)
        tlo == [a \in Axes |->
                  IF Active(c, a)
                  THEN bx.lo[a] + ((iv[a] - bx.lo[a]) \div c.bin_size[a]) * c.bin_size[a]
                  ELSE 0]
    IN  [lo |-> tlo,
         hi |-> [a \in Axes |->
                   IF Active(c, a)
                   THEN (IF tlo[a] + c.bin_size[a] - 1 < bx.hi[a]
                         THEN tlo[a] + c.bin_size[a] - 1 ELSE bx.hi[a])
                   ELSE 0]]

\* a_bins: the bin (tile number) of a particle, from its grid cell (radial in RZ)
TilesAlong(c, a) == IF Active(c, a) THEN (c.ncell[a] + c.bin_size[a] - 1) \div c.bin_size[a] ELSE 1
NumBins(c) == TilesAlong(c, 1) * TilesAlong(c, 2) * TilesAlong(c, 3)
BinOf(c, p) ==
    LET iv == CASE c.geom = "1D_Z" -> <<zgrid(c, p) \div Q, 0, 0>>
                [] Is2D(c.geom)    -> <<xgrid(c, p) \div Q, zgrid(c, p) \div Q, 0>>
                [] c.geom = "3D"   -> CellIndex(c, p)
        t  == [a \in Axes |-> iv[a] \div c.bin_size[a]]
    IN  t[1] + TilesAlong(c, 1) * (t[2] + TilesAlong(c, 2) * t[3])

\* a_bins.offsetsPtr(): offsets[b] = number of particles in the bins before b
Offsets(c, ps) ==
    [b \in 0..NumBins(c) |-> Cardinality({ip \in DOMAIN ps : BinOf(c, ps[ip]) < b})]

\* a_bins.permutationPtr(): the particle indices sorted by bin
Permutation(c, ps) ==
    LET before(ip) ==
          Cardinality({jp \in DOMAIN ps :
              \/ BinOf(c, ps[jp]) < BinOf(c, ps[ip])
              \/ BinOf(c, ps[jp]) = BinOf(c, ps[ip]) /\ jp < ip})
    IN  [k \in 0..(Len(ps) - 1) |-> CHOOSE ip \in DOMAIN ps : before(ip) = k]

Blocks == 0..(NumBins(cfg) - 1)
Threads == 0..(BlockDim - 1)

\* every block starting at the first particle
bin_startZero(b) == 0

bin_start(b) == cfg.offsets[b]
bin_stop(b) == cfg.offsets[b + 1]

\* buffer_box of block b, from the position of the first particle of the bin
buffer_box(b) == TileBox(cfg, CellIndex(cfg, particles[cfg.permutation[bin_start(b)]]))

\* tbx = convert(buffer_box, ix_type).grow(depos_order)
tbx(b) == Grow(cfg, Convert(cfg, buffer_box(b)), cfg.depos_order)

\* npts of the sample tile: the reals of shared memory given to each block
SharedPts(c) ==
    NumPts(Grow(c, Convert(c, [lo |-> <<0, 0, 0>>,
                               hi |-> [a \in Axes |-> IF Active(c, a)
                                                      THEN c.a_tbox_max_size[a] - 1 ELSE 0]]),
                c.depos_order))

\* Array4 buf(shared, begin(tbx), end(tbx), 1): offset of buf(i, j, k, n) in shared
BufOffset(bx, idx) ==
    (idx[1] - bx.lo[1]) + BoxLen(bx, 1) * ((idx[2] - bx.lo[2])
        + BoxLen(bx, 2) * ((idx[3] - bx.lo[3]) + BoxLen(bx, 3) * idx[4]))

\* the cell of tbx at offset icell (addLocalToGlobal)
CellAt(bx, icell) ==
    LET k == icell \div (BoxLen(bx, 1) * BoxLen(bx, 2))
        j == (icell - k * (BoxLen(bx, 1) * BoxLen(bx, 2))) \div BoxLen(bx, 1)
        i == (icell - k * (BoxLen(bx, 1) * BoxLen(bx, 2))) - j * BoxLen(bx, 1)
    IN  <<i + bx.lo[1], j + bx.lo[2], k + bx.lo[3], 0>>

At(b, t) == tpc[b][t]
SetAt(b, t, r) == [tpc EXCEPT ![b][t] = r]

TiledFrame == UNCHANGED <<cfg, particles, pc, field, ppc, host>>

\* if (bin_start == bin_stop) { return; }
Begin(b, t) ==
    /\ cfg.kernel = "shared"
    /\ At(b, t).ph = "start"
    /\ tpc' = SetAt(b, t, IF bin_start(b) = bin_stop(b)
                          THEN [ph |-> "done", n |-> 0, m |-> 0]
                          ELSE [ph |-> "zero", n |-> t, m |-> 0])
    /\ UNCHANGED <<rho_arr, shared, stray>>
    /\ TiledFrame

\* for (i = threadIdx.x; i < tbx.numPts(); i += blockDim.x) vs[i] = 0.0
ZeroStep(b, t) ==
    /\ cfg.kernel = "shared"
    /\ At(b, t).ph = "zero"
    /\ At(b, t).n < NumPts(tbx(b))
    /\ shared' = [shared EXCEPT ![b][At(b, t).n] = 0]
    /\ tpc' = SetAt(b, t, [At(b, t) EXCEPT !.n = @ + BlockDim])
    /\ UNCHANGED <<rho_arr, stray>>
    /\ TiledFrame

ZeroFinished(b, t) ==
    \/ At(b, t).ph \in {"scatter", "merge"}
    \/ At(b, t).ph = "zero" /\ At(b, t).n >= NumPts(tbx(b))

\* the first __syncthreads(): every thread of the block has left the zero loop
Barrier1Absent(b) == TRUE
Barrier1(b) == \A u \in Threads : ZeroFinished(b, u)

SyncThreads1(b, t) ==
    /\ cfg.kernel = "shared"
    /\ At(b, t).ph = "zero"
    /\ At(b, t).n >= NumPts(tbx(b))
    /\ Barrier1(b)
    /\ tpc' = SetAt(b, t, [ph |-> "scatter", n |-> bin_start(b) + t, m |-> 0])
    /\ UNCHANGED <<rho_arr, shared, stray>>
    /\ TiledFrame

\* one atomic add of the particle loop
\* (ip_orig = bin_start + threadIdx.x; ip_orig < bin_stop; ip_orig += blockDim.x)
ScatterStep(b, t) ==
    /\ cfg.kernel = "shared"
    /\ At(b, t).ph = "scatter"
    /\ At(b, t).n < bin_stop(b)
    /\ LET ip  == cfg.permutation[At(b, t).n]
           a   == Add(cfg, particles[ip], At(b, t).m)
           off == BufOffset(tbx(b), a.idx)
       IN  IF off \in DOMAIN shared[b]
           THEN /\ shared' = [shared EXCEPT ![b] = AtomicAddNoRet(@, off, a.v)]
                /\ stray' = stray
           ELSE \* outside the shared memory of the block: undefined behaviour
                /\ shared' = shared
                /\ stray' = stray \cup {<<b, off>>}
    /\ tpc' = SetAt(b, t, IF At(b, t).m + 1 < NAdds(cfg)
                          THEN [At(b, t) EXCEPT !.m = @ + 1]
                          ELSE [At(b, t) EXCEPT !.n = @ + BlockDim, !.m = 0])
    /\ UNCHANGED rho_arr
    /\ TiledFrame

ScatterFinished(b, t) ==
    \/ At(b, t).ph = "merge"
    \/ At(b, t).ph = "scatter" /\ At(b, t).n >= bin_stop(b)

\* the second __syncthreads(): every thread of the block has left the particle loop
Barrier2Absent(b) == TRUE
Barrier2(b) == \A u \in Threads : ScatterFinished(b, u)

SyncThreads2(b, t) ==
    /\ cfg.kernel = "shared"
    /\ At(b, t).ph = "scatter"
    /\ At(b, t).n >= bin_stop(b)
    /\ Barrier2(b)
    /\ tpc' = SetAt(b, t, [ph |-> "merge", n |-> t, m |-> 0])
    /\ UNCHANGED <<rho_arr, shared, stray>>
    /\ TiledFrame

\* addLocalToGlobal(tbx, rho_arr, buf): one iteration of
\* (icell = threadIdx.x; icell < bx.numPts(); icell += blockDim.x);
\* cells of the buffer outside rho_arr are skipped
MergeStep(b, t) ==
    /\ cfg.kernel = "shared"
    /\ At(b, t).ph = "merge"
    /\ At(b, t).n < NumPts(tbx(b))
    /\ LET cell == CellAt(tbx(b), At(b, t).n)
       IN  rho_arr' = IF cell \in DOMAIN rho_arr
                      THEN AtomicAddNoRet(rho_arr, cell, shared[b][At(b, t).n])
                      ELSE rho_arr
    /\ tpc' = SetAt(b, t, [At(b, t) EXCEPT !.n = @ + BlockDim])
    /\ UNCHANGED <<shared, stray>>
    /\ TiledFrame

ThreadDone(b, t) ==
    \/ At(b, t).ph = "done"
    \/ At(b, t).ph = "merge" /\ At(b, t).n >= NumPts(tbx(b))

TiledDone == \A b \in Blocks : \A t \in Threads : ThreadDone(b, t)

\* content of shared memory at launch: not initialized
Garbage == {0, 7}

TiledCfg(g, o, ty, m, nc, bs) ==
    [kernel |-> "shared", geom |-> g, depos_order |-> o, rho_type |-> ty,
     dxi |-> <<1, 1, 1>>, xyzmin |-> <<0, 0, 0>>, lo |-> <<0, 0, 0>>, q |-> 1,
     n_rz_azimuthal_modes |-> m, do_ionization |-> FALSE, rho0 |-> "ramp",
     ncell |-> nc, bin_size |-> bs, a_tbox_max_size |-> bs]

TiledStart(c, ps, g) ==
    /\ cfg = [x \in DOMAIN c \cup {"offsets", "permutation"} |->
                IF x = "offsets" THEN Offsets(c, ps)
                ELSE IF x = "permutation" THEN Permutation(c, ps)
                ELSE c[x]]
    /\ particles = ps
    /\ rho_arr = [idx \in ArrCells(c) |-> Rho0(c, idx)]
    /\ shared = [b \in 0..(NumBins(c) - 1) |-> [i \in 0..(SharedPts(c) - 1) |-> g]]
    /\ tpc = [b \in 0..(NumBins(c) - 1) |->
                [t \in Threads |-> [ph |-> "start", n |-> 0, m |-> 0]]]
    /\ stray = {}
    /\ pc = Idle /\ field = Idle /\ ppc = Idle /\ host = Idle

\* particles of the tiled batches: cells 0 .. NTiles-1 along the first axis
TiledParticles(c) ==
    IF c.geom = "RZ"
    THEN { Particle(x, 0, 1, 1, 0) : x \in {1, Q + 1} }
    ELSE { Particle(0, 0, z, 1, 0) : z \in {1, Q - 1, Q + 1} }

TiledCfgs ==
    { TiledCfg("1D_Z", o, <<ty, CELL, CELL>>, 1, <<NTiles, 1, 1>>, <<1, 1, 1>>) :
        o \in {1, 2}, ty \in {NODE, CELL} }
    \cup
    { TiledCfg("RZ", 0, <<NODE, NODE, CELL>>, m, <<NTiles, 1, 1>>, <<1, 1, 1>>) :
        m \in {1, MaxModes} }

InitTiled ==
    \E c \in TiledCfgs : \E ps \in Batches(TiledParticles(c), MaxNp) :
        \E g \in Garbage : TiledStart(c, ps, g)

NextTiled ==
    \/ \E b \in Blocks : \E t \in Threads : Begin(b, t)
    \/ \E b \in Blocks : \E t \in Threads : ZeroStep(b, t)
    \/ \E b \in Blocks : \E t \in Threads : SyncThreads1(b, t)
    \/ \E b \in Blocks : \E t \in Threads : ScatterStep(b, t)
    \/ \E b \in Blocks : \E t \in Threads : SyncThreads2(b, t)
    \/ \E b \in Blocks : \E t \in Threads : MergeStep(b, t)

SpecTiled == InitTiled /\ [][NextTiled]_vars

(***************************************************************************)
(* C3 as stated: the grid produced by the tiled kernel equals, cell by     *)
(* cell and for every component, the grid the direct kernel produces on    *)
(* the same batch and initial grid (initial value plus the sum of all      *)
(* contributions, C1).                                                     *)
(***************************************************************************)
C3_TiledEqualsDirect ==
    (cfg.kernel = "shared" /\ TiledDone) =>
        \A idx \in ArrCells(cfg) :
            rho_arr[idx] = Rho0(cfg, idx) + SumBatch(cfg, particles, idx, Len(particles))

(***************************************************************************)
(* C4: within one block, no thread is in addLocalToGlobal until every      *)
(* thread of the block has finished all its scatter adds.                  *)
(***************************************************************************)
C4_MergeAfterScatter ==
    cfg.kernel = "shared" =>
        \A b \in Blocks : \A t \in Threads :
            At(b, t).ph = "merge" => \A u \in Threads : ScatterFinished(b, u)

\* a thread has merged a cell of a tile in which both threads scattered
C4_Witness ==
    /\ cfg.kernel = "shared"
    /\ \E b \in Blocks : \E t \in Threads :
          /\ bin_stop(b) - bin_start(b) >= BlockDim
          /\ At(b, t).ph = "merge" /\ At(b, t).n > t

(***************************************************************************)
(* PEC boundary kernels (WarpX_PEC.H).  A cell is <<i, j, k>> (an unused   *)
(* axis is 0); the array holds the component n the kernel is called for.   *)
(***************************************************************************)
PecGuard == 2      \* guard cells of the field arrays on each side

\* cells of the domain along each axis; the domain is wider than the guard region
DomW == PecGuard + 1

AMREX_SPACEDIM(g) == NDim(g)

\* index range of the array along axis a: the nodal-converted domain grown by
\* the guard cells
FabLo(c, a) == IF Active(c, a) THEN c.dom_lo[a] - c.ng ELSE 0
FabHi(c, a) == IF Active(c, a) THEN c.dom_hi[a] + c.is_nodal[a] + c.ng ELSE 0

FabCells(c) ==
    { <<i, j, k>> : i \in FabLo(c, 1)..FabHi(c, 1), j \in FabLo(c, 2)..FabHi(c, 2),
                    k \in FabLo(c, 3)..FabHi(c, 3) }

\* fabbox.contains(iv)
FabContains(c, iv) == iv \in FabCells(c)

\* is_boundary_PEC(fbndry_lo / fbndry_hi, idim)
isPECBoundary(c, idim, iside) == IF iside = 0 THEN c.pec_lo[idim] ELSE c.pec_hi[idim]

\* the high boundary taken at dom_hi whatever the staggering
get_cell_count_to_boundaryCell(dom_lo, dom_hi, ijk_vec, is_nodal, idim, iside) ==
    IF iside = 0 THEN dom_lo[idim] - ijk_vec[idim] ELSE ijk_vec[idim] - dom_hi[idim]

get_cell_count_to_boundary(dom_lo, dom_hi, ijk_vec, is_nodal, idim, iside) ==
    IF iside = 0 THEN dom_lo[idim] - ijk_vec[idim]
                 ELSE ijk_vec[idim] - (dom_hi[idim] + is_nodal[idim])

\* the rule of the 3D build used in every build
is_tangent_to_PEC3D(c, idim) == c.icomp # idim - 1

\* is_tangent_to_PEC of SetEfieldOnPEC; idim is 1-based here, 0-based in the code
is_tangent_to_PEC(c, idim) ==
    CASE Is2D(c.geom)    -> c.icomp # AMREX_SPACEDIM(c.geom) * (idim - 1)
      [] c.geom = "1D_Z" -> c.icomp # (idim - 1) + 2
      [] c.geom = "3D"   -> c.icomp # idim - 1

\* the B kernel classifying as the E kernel does
is_normal_to_PECSwapped(c, idim) == is_tangent_to_PEC(c, idim)

\* is_normal_to_PEC of SetBfieldOnPEC
is_normal_to_PEC(c, idim) ==
    CASE Is2D(c.geom)    -> c.icomp = AMREX_SPACEDIM(c.geom) * (idim - 1)
      [] c.geom = "1D_Z" -> c.icomp = (idim - 1) + 2
      [] c.geom = "3D"   -> c.icomp = idim - 1

\* every component treated as the inverted class
InvertedAlways(c, idim) == TRUE

\* the rule of the E kernel applied to both fields
InvertedAsE(c, idim) == is_tangent_to_PEC(c, idim)

\* the component class that is zeroed on the boundary and inverted across it:
\* tangential for E, normal for B
Inverted(c, idim) ==
    IF c.kernel = "E" THEN is_tangent_to_PEC(c, idim) ELSE is_normal_to_PEC(c, idim)

\* a mirror location one cell off
MirrorIndexShifted(c, idim, iside, ig) ==
    IF iside = 0 THEN c.dom_lo[idim] + ig + 1 ELSE c.dom_hi[idim] - ig

\* mirror location across the PEC boundary of a cell ig points past it
MirrorIndex(c, idim, iside, ig) ==
    IF iside = 0 THEN c.dom_lo[idim] + ig - (1 - c.is_nodal[idim])
                 ELSE c.dom_hi[idim] + 1 - ig

\* no radial scale in any geometry
RadialScaleNone(c, ijk_vec, idim, iside, ig) == [num |-> 1, den |-> 1]

\* RZ, icomp == 0 && idim == 0 && iside == 1: sign *= rmirror/rguard with
\* r = index + 0.5*(1 - is_nodal); kept as the fraction 2*rmirror / 2*rguard
RadialScale(c, ijk_vec, idim, iside, ig) ==
    IF c.geom = "RZ" /\ c.icomp = 0 /\ idim = 1 /\ iside = 1
    THEN [num |-> 2 * MirrorIndex(c, idim, iside, ig) + (1 - c.is_nodal[idim]),
          den |-> 2 * ijk_vec[idim] + (1 - c.is_nodal[idim])]
    ELSE [num |-> 1, den |-> 1]

\* sign * field(ijk_mirror), sign carrying the fraction rmirror/rguard
Scaled(st, v) == (st.sign * st.rmirror * v) \div st.rguard

\* the loops over idim and iside of SetEfieldOnPEC / SetBfieldOnPEC, from
\* iteration k = 2*(idim-1) + iside on; st = [mirror, on, guard, sign, rmirror, rguard]
RECURSIVE FieldLoop(_, _, _, _)
FieldLoop(c, ijk_vec, k, st) ==
    IF k = 2 * AMREX_SPACEDIM(c.geom) THEN st
    ELSE LET idim  == (k \div 2) + 1
             iside == k % 2
             ig    == get_cell_count_to_boundary(c.dom_lo, c.dom_hi, ijk_vec,
                                                 c.is_nodal, idim, iside)
             nxt   ==
               IF ~isPECBoundary(c, idim, iside) THEN st
               ELSE IF ig = 0
                    THEN (IF Inverted(c, idim) /\ c.is_nodal[idim] = 1
                          THEN [st EXCEPT !.on = TRUE] ELSE st)
               ELSE IF ig > 0
                    THEN [st EXCEPT !.mirror[idim] = MirrorIndex(c, idim, iside, ig),
                                    !.guard = TRUE,
                                    !.sign = IF Inverted(c, idim) THEN 0 - @ ELSE @,
                                    !.rmirror = @ * RadialScale(c, ijk_vec, idim, iside, ig).num,
                                    !.rguard = @ * RadialScale(c, ijk_vec, idim, iside, ig).den]
               ELSE st
         IN  FieldLoop(c, ijk_vec, k + 1, nxt)

FieldFlags(c, ijk_vec) ==
    FieldLoop(c, ijk_vec, 0, [mirror |-> ijk_vec, on |-> FALSE, guard |-> FALSE, sign |-> 1,
                              rmirror |-> 1, rguard |-> 1])

\* the kernel without the zeroing branch
SetFieldOnPECNoZero(c, arr, ijk_vec, gv) ==
    LET st == FieldFlags(c, ijk_vec)
    IN  IF st.guard
        THEN [arr EXCEPT ![ijk_vec] =
                Scaled(st, IF st.mirror \in DOMAIN arr THEN arr[st.mirror] ELSE gv)]
        ELSE arr

\* a kernel that accumulates the mirror value into the guard cell
SetFieldOnPECAccumulate(c, arr, ijk_vec, gv) ==
    LET st == FieldFlags(c, ijk_vec)
    IN  IF st.on THEN [arr EXCEPT ![ijk_vec] = 0]
        ELSE IF st.guard
             THEN [arr EXCEPT ![ijk_vec] =
                     @ + Scaled(st, IF st.mirror \in DOMAIN arr THEN arr[st.mirror] ELSE gv)]
        ELSE arr

\* a kernel that tests GuardCell before OnPECBoundary
SetFieldOnPECGuardFirst(c, arr, ijk_vec, gv) ==
    LET st == FieldFlags(c, ijk_vec)
    IN  IF st.guard
        THEN [arr EXCEPT ![ijk_vec] =
                Scaled(st, IF st.mirror \in DOMAIN arr THEN arr[st.mirror] ELSE gv)]
        ELSE IF st.on THEN [arr EXCEPT ![ijk_vec] = 0]
        ELSE arr

\* the array after SetEfieldOnPEC / SetBfieldOnPEC on cell ijk_vec; gv is the
\* value a read outside the array yields (undefined behaviour)
SetFieldOnPEC(c, arr, ijk_vec, gv) ==
    LET st == FieldFlags(c, ijk_vec)
    IN  IF st.on THEN [arr EXCEPT ![ijk_vec] = 0]
        ELSE IF st.guard
             THEN [arr EXCEPT ![ijk_vec] =
                     Scaled(st, IF st.mirror \in DOMAIN arr THEN arr[st.mirror] ELSE gv)]
        ELSE arr

\* the cells a call on ijk_vec reads or writes
FieldTouched(c, ijk_vec) ==
    LET st == FieldFlags(c, ijk_vec)
    IN  IF st.on THEN {ijk_vec}
        ELSE IF st.guard THEN {ijk_vec, st.mirror}
        ELSE {}

\* the product of 2*rguard over the radial guard cells i..FabHi of the high side
RECURSIVE RadialDen(_, _)
RadialDen(c, i) ==
    IF i > FabHi(c, 1) THEN 1
    ELSE (2 * i + (1 - c.is_nodal[1])) * RadialDen(c, i + 1)

\* content of the array before the pass: distinct non-zero values, in RZ
\* multiples of every 2*rguard so that the radial scale is exact
Field0(c, iv) ==
    (1 + (iv[1] - FabLo(c, 1)) + 16 * (iv[2] - FabLo(c, 2)) + 256 * (iv[3] - FabLo(c, 3)))
        * (IF c.geom = "RZ" THEN RadialDen(c, c.dom_hi[1] + c.is_nodal[1] + 1) ELSE 1)

\* the order in which a pass visits the cells: position of a cell in the sweep
SweepRank(c, iv) ==
    LET di == iv[1] - FabLo(c, 1)
        dj == iv[2] - FabLo(c, 2)
        ni == FabHi(c, 1) - FabLo(c, 1) + 1
        nj == FabHi(c, 2) - FabLo(c, 2) + 1
    IN  CASE c.order = "rows"      -> di + ni * dj
          [] c.order = "rows_back" -> (ni * nj - 1) - (di + ni * dj)
          [] c.order = "cols"      -> dj + nj * di
          [] c.order = "cols_back" -> (ni * nj - 1) - (dj + nj * di)

\* the pass visits the cells in any order ("any") or in a sweep
MayVisit(c, doneCells, iv) ==
    /\ iv \in FabCells(c) \ doneCells
    /\ c.order # "any" => SweepRank(c, iv) = Cardinality(doneCells)

\* one call of the pass over the array (ApplyPECtoEfield / ApplyPECtoBfield)
ApplyFieldCell(iv) ==
    /\ cfg.kernel \in {"E", "B"}
    /\ MayVisit(cfg, ppc.done, iv)
    /\ \E gv \in Garbage :
          field' = SetFieldOnPEC(cfg, field, iv, gv)
    /\ ppc' = [ppc EXCEPT !.done = @ \cup {iv}, !.last = iv, !.pre = field,
                          !.touched = FieldTouched(cfg, iv)]
    /\ UNCHANGED <<cfg, particles, rho_arr, pc, shared, tpc, stray, host>>

\* the pass is applied a second time
SecondPass ==
    /\ cfg.kernel \in {"E", "B"}
    /\ ppc.pass = 1
    /\ ppc.done = FabCells(cfg)
    /\ ppc' = [ppc EXCEPT !.pass = 2, !.done = {}, !.last = <<>>, !.after1 = field,
                          !.touched = {}]
    /\ UNCHANGED <<cfg, particles, rho_arr, pc, shared, tpc, stray, field, host>>

PecCfg(kernel, g, icomp, nodal, plo, phi, order) ==
    [kernel |-> kernel, geom |-> g, icomp |-> icomp,
     dom_lo |-> <<0, 0, 0>>,
     dom_hi |-> [a \in Axes |-> IF a <= NDim(g) THEN DomW - 1 ELSE 0],
     is_nodal |-> nodal, pec_lo |-> plo, pec_hi |-> phi, ng |-> PecGuard,
     order |-> order]

Flags(g) ==
    CASE g = "1D_Z" -> { <<x, FALSE, FALSE>> : x \in BOOLEAN }
      [] Is2D(g)    -> { <<x, y, FALSE>> : x \in BOOLEAN, y \in BOOLEAN }

Stagger(g) ==
    CASE g = "1D_Z" -> { <<x, 0, 0>> : x \in {0, 1} }
      [] Is2D(g)    -> { <<x, y, 0>> : x \in {0, 1}, y \in {0, 1} }

\* 1D: every call order for E, a sweep for B; XZ: two sweeps; RZ: a sweep,
\* the low radial side being the axis
FieldCfgs ==
    { PecCfg(kernel, "RZ", icomp, nodal, <<FALSE, FALSE, FALSE>>, phi, "rows") :
        kernel \in {"E", "B"}, icomp \in 0..2, nodal \in Stagger("RZ"),
        phi \in {<<TRUE, FALSE, FALSE>>, <<TRUE, TRUE, FALSE>>} }
    \cup
    { PecCfg("E", "1D_Z", icomp, nodal, plo, phi, "any") :
        icomp \in {0, 2}, nodal \in Stagger("1D_Z"),
        plo \in Flags("1D_Z"), phi \in {<<TRUE, FALSE, FALSE>>} }
    \cup
    { PecCfg(kernel, "1D_Z", icomp, nodal, plo, phi, "rows") :
        kernel \in {"E", "B"}, icomp \in 0..2, nodal \in Stagger("1D_Z"),
        plo \in Flags("1D_Z"), phi \in Flags("1D_Z") }
    \cup
    { PecCfg(kernel, "XZ", icomp, nodal, plo, phi, order) :
        kernel \in {"E", "B"}, icomp \in 0..2, nodal \in Stagger("XZ"),
        plo \in {<<TRUE, TRUE, FALSE>>, <<TRUE, FALSE, FALSE>>},
        phi \in {<<FALSE, TRUE, FALSE>>, <<FALSE, FALSE, FALSE>>},
        order \in {"rows", "cols_back"} }

FieldStart(c) ==
    /\ cfg = c
    /\ field = [iv \in FabCells(c) |-> Field0(c, iv)]
    /\ ppc = [pass |-> 1, done |-> {}, last |-> <<>>, pre |-> <<>>, after1 |-> <<>>,
              touched |-> {}]
    /\ particles = Idle /\ rho_arr = Idle /\ pc = Idle
    /\ shared = Idle /\ tpc = Idle /\ stray = Idle /\ host = Idle

InitField == \E c \in FieldCfgs : FieldStart(c)

NextField ==
    \/ \E iv \in FabCells(cfg) : ApplyFieldCell(iv)
    \/ SecondPass

SpecField == InitField /\ [][NextField]_vars

(***************************************************************************)
(* Properties of the field pass.                                           *)
(***************************************************************************)
SpaceDims(c) == 1..AMREX_SPACEDIM(c.geom)

\* index of the point symmetric to index i about the PEC boundary plane: the
\* plane is at node dom_lo (low side) or node dom_hi + 1 (high side); a
\* cell-centred index i sits half a cell above node i
Reflect(c, idim, iside, i) ==
    LET plane == IF iside = 0 THEN c.dom_lo[idim] ELSE c.dom_hi[idim] + 1
    IN  2 * plane - i - (1 - c.is_nodal[idim])

\* the PEC boundaries the cell is a guard cell of
GuardDirs(c, iv) ==
    { d \in SpaceDims(c) \X {0, 1} :
        /\ isPECBoundary(c, d[1], d[2])
        /\ get_cell_count_to_boundary(c.dom_lo, c.dom_hi, iv, c.is_nodal, d[1], d[2]) > 0 }

\* the cell lies on a PEC boundary in a node-staggered direction the
\* component is tangential to
OnTangentialPEC(c, iv) ==
    \E idim \in SpaceDims(c), iside \in {0, 1} :
        /\ isPECBoundary(c, idim, iside)
        /\ get_cell_count_to_boundary(c.dom_lo, c.dom_hi, iv, c.is_nodal, idim, iside) = 0
        /\ c.is_nodal[idim] = 1
        /\ is_tangent_to_PEC(c, idim)

MirrorCell(c, iv) ==
    [a \in Axes |->
        IF \E iside \in {0, 1} : <<a, iside>> \in GuardDirs(c, iv)
        THEN Reflect(c, a, CHOOSE iside \in {0, 1} : <<a, iside>> \in GuardDirs(c, iv), iv[a])
        ELSE iv[a]]

SignProduct(c, iv) ==
    IF Cardinality({ d \in GuardDirs(c, iv) : is_tangent_to_PEC(c, d[1]) }) % 2 = 1
    THEN 0 - 1 ELSE 1

Called == cfg.kernel \in {"E", "B"} /\ ppc.last # <<>>

\* C5: after SetEfieldOnPEC on a cell lying exactly on a PEC boundary (ig = 0)
\* in a node-staggered direction to which the component is tangential, the
\* cell holds exactly 0, whatever it held before the call.
C5_BoundaryCellZero ==
    (Called /\ cfg.kernel = "E" /\ OnTangentialPEC(cfg, ppc.last))
        => field[ppc.last] = 0

C5_Witness ==
    /\ Called /\ cfg.kernel = "E"
    /\ OnTangentialPEC(cfg, ppc.last)
    /\ ppc.pre[ppc.last] # 0
    /\ field[ppc.last] = 0

\* C6: after SetEfieldOnPEC on a guard cell (ig > 0 past at least one PEC
\* boundary) that is not zeroed as an on-boundary cell, the cell holds s times
\* the pre-call value of its mirror cell; the mirror index is reflected in
\* every PEC direction the cell is a guard cell of, and s is the product over
\* those directions of -1 (tangential component) or +1 (normal component),
\* in the Cartesian geometries.
C6_GuardIsSignedMirror ==
    (/\ Called /\ cfg.kernel = "E" /\ cfg.geom # "RZ"
     /\ GuardDirs(cfg, ppc.last) # {}
     /\ ~OnTangentialPEC(cfg, ppc.last))
        => field[ppc.last] = SignProduct(cfg, ppc.last) * ppc.pre[MirrorCell(cfg, ppc.last)]

\* a corner guard cell of a tangential and a normal boundary has been set
C6_Witness ==
    /\ Called /\ cfg.kernel = "E"
    /\ Cardinality(GuardDirs(cfg, ppc.last)) = 2
    /\ ~OnTangentialPEC(cfg, ppc.last)
    /\ SignProduct(cfg, ppc.last) = 0 - 1
    /\ field[ppc.last] = 0 - ppc.pre[MirrorCell(cfg, ppc.last)]
    /\ field[ppc.last] # ppc.pre[ppc.last]

mirrorfac(c, idim, iside) ==
    IF iside = 0 THEN 2 * c.dom_lo[idim] - (1 - c.is_nodal[idim])
                 ELSE 2 * c.dom_hi[idim] + 1 + c.is_nodal[idim]

iv_mirror(c, ijk_vec, idim, iside) ==
    [ijk_vec EXCEPT ![idim] = mirrorfac(c, idim, iside) - ijk_vec[idim]]

IterDim(k) == (k \div 2) + 1
IterSide(k) == k % 2
MirrorOf(c, ijk_vec, k) == iv_mirror(c, ijk_vec, IterDim(k), IterSide(k))

\* a bounds check that always succeeds
FabContainsAlways(c, iv) == TRUE

\* fabbox.contains(iv_mirror) as the source kernels ask it
MirrorExists(c, iv) == FabContains(c, iv)

\* a read or a write of a cell of the array; outside the array a read yields
\* any value and a write lands in memory that is not the array's
ReadCell(arr, iv, gv) == IF iv \in DOMAIN arr THEN arr[iv] ELSE gv
WriteCell(arr, iv, v) == IF iv \in DOMAIN arr THEN [arr EXCEPT ![iv] = v] ELSE arr

\* a first loop that leaves the cell on the boundary as it is
RhoAddKeepBoundary(c, arr, ijk_vec, k, gv) ==
    LET m == MirrorOf(c, ijk_vec, k)
    IN  IF ~isPECBoundary(c, IterDim(k), IterSide(k)) THEN arr
        ELSE IF ijk_vec = m THEN arr
        ELSE IF MirrorExists(c, m)
             THEN WriteCell(arr, ijk_vec,
                            arr[ijk_vec] + c.psign[IterDim(k)][IterSide(k) + 1] * ReadCell(arr, m, gv))
        ELSE arr

\* iteration k of the first loop of SetRhoOrJfieldFromPEC
RhoAdd(c, arr, ijk_vec, k, gv) ==
    LET m == MirrorOf(c, ijk_vec, k)
    IN  IF ~isPECBoundary(c, IterDim(k), IterSide(k)) THEN arr
        ELSE IF ijk_vec = m THEN WriteCell(arr, ijk_vec, 0)
        ELSE IF MirrorExists(c, m)
             THEN WriteCell(arr, ijk_vec,
                            arr[ijk_vec] + c.psign[IterDim(k)][IterSide(k) + 1] * ReadCell(arr, m, gv))
        ELSE arr

\* the second loop writing the value the cell held when the kernel was called
RhoOverwriteStale(c, arr, ijk_vec, k) ==
    LET m == MirrorOf(c, ijk_vec, k)
    IN  IF isPECBoundary(c, IterDim(k), IterSide(k)) /\ ijk_vec # m /\ MirrorExists(c, m)
        THEN WriteCell(arr, m, IF c.tangent_to_bndy[IterDim(k)]
                               THEN 0 - Field0(c, ijk_vec) ELSE Field0(c, ijk_vec))
        ELSE arr

\* iteration k of the second loop of SetRhoOrJfieldFromPEC
RhoOverwrite(c, arr, ijk_vec, k) ==
    LET m == MirrorOf(c, ijk_vec, k)
    IN  IF isPECBoundary(c, IterDim(k), IterSide(k)) /\ ijk_vec # m /\ MirrorExists(c, m)
        THEN WriteCell(arr, m, IF c.tangent_to_bndy[IterDim(k)]
                               THEN 0 - arr[ijk_vec] ELSE arr[ijk_vec])
        ELSE arr

\* the neighbour one step outside the domain
NeumannNeighbourOutward(ijk_vec, k) ==
    [ijk_vec EXCEPT ![IterDim(k)] = @ + (IF IterSide(k) = 0 THEN 0 - 1 ELSE 1)]

\* the first interior cell next to an on-boundary cell
NeumannNeighbour(ijk_vec, k) ==
    [ijk_vec EXCEPT ![IterDim(k)] = @ + (IF IterSide(k) = 0 THEN 1 ELSE 0 - 1)]

\* the guard cell gets the value with its sign flipped
NeumannIterFlipped(c, arr, ijk_vec, k, gv) ==
    LET m == MirrorOf(c, ijk_vec, k)
    IN  IF ~isPECBoundary(c, IterDim(k), IterSide(k)) THEN arr
        ELSE IF ijk_vec = m
             THEN (IF MirrorExists(c, NeumannNeighbour(ijk_vec, k))
                   THEN WriteCell(arr, ijk_vec, ReadCell(arr, NeumannNeighbour(ijk_vec, k), gv))
                   ELSE arr)
        ELSE IF MirrorExists(c, m) THEN WriteCell(arr, m, 0 - arr[ijk_vec])
        ELSE arr

\* iteration k of the loop of SetNeumannOnPEC
NeumannIter(c, arr, ijk_vec, k, gv) ==
    LET m == MirrorOf(c, ijk_vec, k)
    IN  IF ~isPECBoundary(c, IterDim(k), IterSide(k)) THEN arr
        ELSE IF ijk_vec = m
             THEN (IF MirrorExists(c, NeumannNeighbour(ijk_vec, k))
                   THEN WriteCell(arr, ijk_vec, ReadCell(arr, NeumannNeighbour(ijk_vec, k), gv))
                   ELSE arr)
        ELSE IF MirrorExists(c, m) THEN WriteCell(arr, m, arr[ijk_vec])
        ELSE arr

\* the mirror index iteration k computes (none when the side is not PEC)
MirrorComputed(c, ijk_vec, k) ==
    LET m == MirrorOf(c, ijk_vec, k)
    IN  IF ~isPECBoundary(c, IterDim(k), IterSide(k)) THEN <<>>
        ELSE IF c.kernel = "neumann" /\ ijk_vec = m THEN NeumannNeighbour(ijk_vec, k)
        ELSE m

\* the cells iteration k reads or writes
SourceTouched(c, ijk_vec, k) ==
    LET m == MirrorComputed(c, ijk_vec, k)
    IN  IF m = <<>> THEN {}
        ELSE IF c.kernel = "rho" /\ m = ijk_vec THEN {ijk_vec}
        ELSE IF MirrorExists(c, m) THEN {ijk_vec, m}
        ELSE {}

NIter(c) == 2 * AMREX_SPACEDIM(c.geom)

Advance(k) ==
    [ppc EXCEPT !.k = k + 1, !.before = field,
                !.mirror = MirrorComputed(cfg, ppc.cell, k),
                !.touched = @ \cup SourceTouched(cfg, ppc.cell, k)]

RhoAddStep ==
    /\ cfg.kernel = "rho" /\ ppc.phase = 1
    /\ ppc.k < NIter(cfg)
    /\ \E gv \in Garbage : field' = RhoAdd(cfg, field, ppc.cell, ppc.k, gv)
    /\ ppc' = Advance(ppc.k)
    /\ UNCHANGED <<cfg, particles, rho_arr, pc, shared, tpc, stray, host>>

\* the first loop is over, the second begins
RhoLoopTwo ==
    /\ cfg.kernel = "rho" /\ ppc.phase = 1
    /\ ppc.k = NIter(cfg)
    /\ ppc' = [ppc EXCEPT !.phase = 2, !.k = 0, !.added = field, !.mirror = <<>>]
    /\ UNCHANGED <<cfg, particles, rho_arr, pc, shared, tpc, stray, field, host>>

RhoOverwriteStep ==
    /\ cfg.kernel = "rho" /\ ppc.phase = 2
    /\ ppc.k < NIter(cfg)
    /\ field' = RhoOverwrite(cfg, field, ppc.cell, ppc.k)
    /\ ppc' = Advance(ppc.k)
    /\ UNCHANGED <<cfg, particles, rho_arr, pc, shared, tpc, stray, host>>

NeumannStep ==
    /\ cfg.kernel = "neumann" /\ ppc.phase = 1
    /\ ppc.k < NIter(cfg)
    /\ \E gv \in Garbage : field' = NeumannIter(cfg, field, ppc.cell, ppc.k, gv)
    /\ ppc' = Advance(ppc.k)
    /\ UNCHANGED <<cfg, particles, rho_arr, pc, shared, tpc, stray, host>>

\* the kernel has returned
Returned ==
    /\ cfg.kernel \in {"rho", "neumann"}
    /\ ppc.k = NIter(cfg)
    /\ cfg.kernel = "rho" => ppc.phase = 2

\* psign: +1 where the particle boundary reflects, -1 where it absorbs
Signs == { <<<<a, a>>, <<a, a>>, <<a, a>>>> : a \in {1, 0 - 1} }
             \cup { <<<<1, 0 - 1>>, <<0 - 1, 1>>, <<1, 1>>>> }

SourceCfg(kernel, g, nodal, plo, phi, ps, tg) ==
    [kernel |-> kernel, geom |-> g,
     dom_lo |-> <<0, 0, 0>>,
     dom_hi |-> [a \in Axes |-> IF a <= NDim(g) THEN DomW - 1 ELSE 0],
     is_nodal |-> nodal, pec_lo |-> plo, pec_hi |-> phi, ng |-> PecGuard,
     psign |-> ps, tangent_to_bndy |-> tg]

RhoCfgs(g) ==
    { SourceCfg("rho", g, nodal, plo, phi, ps, tg) :
        nodal \in Stagger(g), plo \in Flags(g), phi \in Flags(g),
        ps \in Signs, tg \in Flags(g) }

NeumannCfgs(g) ==
    { SourceCfg("neumann", g, nodal, plo, phi, <<<<1, 1>>, <<1, 1>>, <<1, 1>>>>,
                <<FALSE, FALSE, FALSE>>) :
        nodal \in Stagger(g), plo \in Flags(g), phi \in Flags(g) }

SourceCfgs == UNION { RhoCfgs(g) \cup NeumannCfgs(g) : g \in {"1D_Z", "XZ"} }

\* the cells of the domain, in the staggering of the array
DomainCells(c) ==
    { iv \in FabCells(c) :
        \A a \in SpaceDims(c) : iv[a] \in c.dom_lo[a]..(c.dom_hi[a] + c.is_nodal[a]) }

SourceStart(c, iv) ==
    /\ cfg = c
    /\ field = [x \in FabCells(c) |-> Field0(c, x)]
    /\ ppc = [cell |-> iv, phase |-> 1, k |-> 0, before |-> <<>>, added |-> <<>>,
              mirror |-> <<>>, touched |-> {}]
    /\ particles = Idle /\ rho_arr = Idle /\ pc = Idle
    /\ shared = Idle /\ tpc = Idle /\ stray = Idle /\ host = Idle

InitSource == \E c \in SourceCfgs : \E iv \in DomainCells(c) : SourceStart(c, iv)

NextSource ==
    \/ RhoAddStep
    \/ RhoLoopTwo
    \/ RhoOverwriteStep
    \/ NeumannStep

SpecSource == InitSource /\ [][NextSource]_vars

InitPEC == InitField \/ InitSource

NextPEC ==
    \/ \E iv \in FabCells(cfg) : ApplyFieldCell(iv)
    \/ SecondPass
    \/ RhoAddStep
    \/ RhoLoopTwo
    \/ RhoOverwriteStep
    \/ NeumannStep

SpecPEC == InitPEC /\ [][NextPEC]_vars

(***************************************************************************)
(* Properties of the source kernels.                                       *)
(***************************************************************************)
Sides(c) == SpaceDims(c) \X {0, 1}

\* the PEC sides of a cell whose mirror cell differs from it and is in the box
FoldSides(c, iv) ==
    { d \in Sides(c) :
        /\ isPECBoundary(c, d[1], d[2])
        /\ iv_mirror(c, iv, d[1], d[2]) # iv
        /\ iv_mirror(c, iv, d[1], d[2]) \in FabCells(c) }

\* the cell is on a PEC boundary: its mirror index in some PEC side is itself
OnPEC(c, iv) ==
    \E d \in Sides(c) : isPECBoundary(c, d[1], d[2]) /\ iv_mirror(c, iv, d[1], d[2]) = iv

\* sum of psign times the pre-call mirror value over the sides of iterations k..
RECURSIVE FoldSum(_, _, _)
FoldSum(c, iv, k) ==
    IF k = NIter(c) THEN 0
    ELSE (IF <<IterDim(k), IterSide(k)>> \in FoldSides(c, iv)
          THEN c.psign[IterDim(k)][IterSide(k) + 1] * Field0(c, MirrorOf(c, iv, k))
          ELSE 0) + FoldSum(c, iv, k + 1)

ImageOf(c, idim, v) == IF c.tangent_to_bndy[idim] THEN 0 - v ELSE v

\* C8: SetRhoOrJfieldFromPEC on one cell first adds to the cell, for every PEC
\* side whose mirror cell differs from the cell and lies in the array box,
\* psign times the mirror guard cell's value; the guard cells keep their values
\* during these additions, and only afterwards each such guard cell is
\* overwritten with the cell's updated value, negated when tangent_to_bndy
\* holds for the axis and unchanged otherwise.
C8_AddThenOverwrite ==
    cfg.kernel = "rho" =>
        /\ ppc.phase = 1 =>
              \A d \in FoldSides(cfg, ppc.cell) :
                  field[iv_mirror(cfg, ppc.cell, d[1], d[2])]
                      = Field0(cfg, iv_mirror(cfg, ppc.cell, d[1], d[2]))
        /\ (ppc.phase = 1 /\ ppc.k > 0
                /\ <<IterDim(ppc.k - 1), IterSide(ppc.k - 1)>> \in FoldSides(cfg, ppc.cell)) =>
              field[ppc.cell] = ppc.before[ppc.cell]
                  + cfg.psign[IterDim(ppc.k - 1)][IterSide(ppc.k - 1) + 1]
                      * Field0(cfg, MirrorOf(cfg, ppc.cell, ppc.k - 1))
        /\ (ppc.phase = 2 /\ ~OnPEC(cfg, ppc.cell)) =>
              ppc.added[ppc.cell] = Field0(cfg, ppc.cell) + FoldSum(cfg, ppc.cell, 0)
        /\ ppc.phase = 2 => field[ppc.cell] = ppc.added[ppc.cell]
        /\ Returned =>
              \A d \in FoldSides(cfg, ppc.cell) :
                  field[iv_mirror(cfg, ppc.cell, d[1], d[2])]
                      = ImageOf(cfg, d[1], ppc.added[ppc.cell])

\* a cell next to two PEC boundaries has folded both guard cells and imaged
\* its updated value into them, negated in one axis only
C8_Witness ==
    /\ cfg.kernel = "rho" /\ Returned
    /\ cfg.geom = "XZ"
    /\ ~OnPEC(cfg, ppc.cell)
    /\ FoldSides(cfg, ppc.cell) = {<<1, 0>>, <<2, 0>>}
    /\ cfg.tangent_to_bndy[1] /\ ~cfg.tangent_to_bndy[2]
    /\ ppc.added[ppc.cell] # Field0(cfg, ppc.cell)
    /\ field[iv_mirror(cfg, ppc.cell, 1, 0)] = 0 - ppc.added[ppc.cell]
    /\ field[iv_mirror(cfg, ppc.cell, 2, 0)] = ppc.added[ppc.cell]

\* C9: after SetRhoOrJfieldFromPEC returns for a cell on a PEC boundary (its
\* mirror index in some PEC side is the cell itself) the cell holds 0, also
\* when other sides of the cell are PEC boundaries with guard cells in the box.
C9_OnBoundaryIsZero ==
    (cfg.kernel = "rho" /\ Returned /\ OnPEC(cfg, ppc.cell))
        => field[ppc.cell] = 0

\* C10: in SetEfieldOnPEC, SetBfieldOnPEC, SetRhoOrJfieldFromPEC and
\* SetNeumannOnPEC a mirror index outside the array (guard cells included) is
\* neither read nor written, and the step that computed it changes no cell.
C10_MirrorOutsideSkipped ==
    /\ ppc.touched \subseteq FabCells(cfg)
    /\ (cfg.kernel \in {"rho", "neumann"} /\ ppc.mirror # <<>>
            /\ ppc.mirror \notin FabCells(cfg))
          => field = ppc.before
    /\ (Called /\ FieldFlags(cfg, ppc.last).mirror \notin FabCells(cfg))
          => field = ppc.pre

\* an iteration of SetRhoOrJfieldFromPEC has computed a mirror index outside
\* the array and left the array as it was
C10_Witness ==
    /\ cfg.kernel = "rho"
    /\ ppc.k > 0
    /\ ppc.mirror # <<>>
    /\ ppc.mirror \notin FabCells(cfg)
    /\ ppc.touched \subseteq FabCells(cfg)
    /\ field = ppc.before

(***************************************************************************)
(* Frame of the field kernels.                                             *)
(***************************************************************************)
\* the zeroing condition of the kernel on a boundary of axis idim: tangential
\* (SetEfieldOnPEC) or normal (SetBfieldOnPEC) component on a nodal axis
ZeroingCondition(c, idim) ==
    /\ c.is_nodal[idim] = 1
    /\ IF c.kernel = "E" THEN is_tangent_to_PEC(c, idim) ELSE is_normal_to_PEC(c, idim)

\* for every axis and side: not PEC, or inside the domain, or on the boundary
\* without the zeroing condition
NothingToDo(c, iv) ==
    \A idim \in SpaceDims(c), iside \in {0, 1} :
        LET ig == get_cell_count_to_boundary(c.dom_lo, c.dom_hi, iv, c.is_nodal, idim, iside)
        IN  \/ ~isPECBoundary(c, idim, iside)
            \/ ig < 0
            \/ ig = 0 /\ ~ZeroingCondition(c, idim)

\* C11: SetEfieldOnPEC and SetBfieldOnPEC write at most the cell they are
\* called for, and leave it unchanged when, for every axis and side, the
\* boundary is not PEC, or the cell is inside the domain (ig < 0), or the cell
\* is on the boundary (ig = 0) without meeting the zeroing condition.
C11_FieldFrame ==
    Called =>
        /\ \A iv \in FabCells(cfg) \ {ppc.last} : field[iv] = ppc.pre[iv]
        /\ NothingToDo(cfg, ppc.last) => field[ppc.last] = ppc.pre[ppc.last]

\* a call on a cell on a PEC boundary that does not meet the zeroing condition
\* has left the non-zero cell as it was
C11_Witness ==
    /\ Called
    /\ NothingToDo(cfg, ppc.last)
    /\ \E idim \in SpaceDims(cfg), iside \in {0, 1} :
          /\ isPECBoundary(cfg, idim, iside)
          /\ get_cell_count_to_boundary(cfg.dom_lo, cfg.dom_hi, ppc.last,
                                        cfg.is_nodal, idim, iside) = 0
    /\ ppc.pre[ppc.last] # 0
    /\ field = ppc.pre

(***************************************************************************)
(* One particle through either deposition kernel.                          *)
(***************************************************************************)
\* single-particle configurations of the direct kernel, orders 0 and 1
WqDirectCfgs == { c \in SingleCfgs : c.depos_order <= 1 }

\* configurations of the tiled kernel with charge, cell size and ionization
\* varied; the cell size varies along the tiled axis
WqTiledCfgs ==
    { [c EXCEPT !.q = 0 - 1, !.do_ionization = ion, !.rho0 = "zero",
                !.dxi = IF c.geom = "1D_Z" THEN <<1, 1, d>> ELSE <<d, 1, 1>>] :
        c \in { t \in TiledCfgs : t.rho_type[1] = NODE /\ t.n_rz_azimuthal_modes = 1
                                    /\ t.depos_order <= 1 },
        ion \in BOOLEAN, d \in {1, 2} }

\* a particle in the first or in the second tile
WqTiledParticles(c) ==
    LET d == IF c.geom = "1D_Z" THEN c.dxi[3] ELSE c.dxi[1]
        S == IF d = 1 THEN {1, Q + 1} ELSE {1, HalfQ + 1}
    IN  IF c.geom = "RZ"
        THEN { Particle(x, 0, 1, 2, l) : x \in S, l \in IonLevels(c) }
        ELSE { Particle(0, 0, z, 2, l) : z \in S, l \in IonLevels(c) }

InitWq ==
    \/ \E c \in WqDirectCfgs : \E p \in SingleParticles(c) : DirectStart(c, <<p>>)
    \/ \E c \in WqTiledCfgs : \E p \in WqTiledParticles(c) : TiledStart(c, <<p>>, 7)

NextWq ==
    \/ \E ip \in DOMAIN pc : DepositStep(ip)
    \/ cfg.kernel = "shared" /\ \E b \in Blocks : \E t \in Threads : Begin(b, t)
    \/ cfg.kernel = "shared" /\ \E b \in Blocks : \E t \in Threads : ZeroStep(b, t)
    \/ cfg.kernel = "shared" /\ \E b \in Blocks : \E t \in Threads : SyncThreads1(b, t)
    \/ cfg.kernel = "shared" /\ \E b \in Blocks : \E t \in Threads : ScatterStep(b, t)
    \/ cfg.kernel = "shared" /\ \E b \in Blocks : \E t \in Threads : SyncThreads2(b, t)
    \/ cfg.kernel = "shared" /\ \E b \in Blocks : \E t \in Threads : MergeStep(b, t)

SpecWq == InitWq /\ [][NextWq]_vars

\* the kernel has completed
Finished ==
    \/ cfg.kernel = "direct" /\ DirectDone
    \/ cfg.kernel = "shared" /\ TiledDone

\* 1/cell_volume: cell_volume is dz in 1D, dx*dz in 2D and axisymmetric,
\* dx*dy*dz in 3D
InvCellVolume(c) ==
    CASE c.geom = "1D_Z" -> c.dxi[3]
      [] c.geom = "XZ"   -> c.dxi[1] * c.dxi[3]
      [] c.geom = "RZ"   -> c.dxi[1] * c.dxi[3]
      [] c.geom = "3D"   -> c.dxi[1] * c.dxi[2] * c.dxi[3]

ExpectedWq(c, p) ==
    c.q * p.wp * InvCellVolume(c) * (IF c.do_ionization THEN p.ion_lev ELSE 1)

\* what the kernel added to the mode-0 cells
Deposited == [idx \in Mode0Cells(cfg) |-> rho_arr[idx] - Rho0(cfg, idx)]

\* the mode-0 cells the kernel changed
DepositedCells == { idx \in Mode0Cells(cfg) : rho_arr[idx] # Rho0(cfg, idx) }

\* C12: both deposition kernels deposit a particle with the weight
\* wq = q * wp[ip] / cell_volume, multiplied by ion_lev[ip] when an
\* ionization-level array is supplied and by 1 when it is not: the mode-0
\* cells of a single particle's deposit sum to wq (over TensorScale).
C12_DepositedWeight ==
    (Finished /\ Len(particles) = 1) =>
        SumCells(Deposited, DepositedCells)
            = ExpectedWq(cfg, particles[1]) * TensorScale(cfg)

\* the tiled kernel has deposited a doubly ionized particle on half-size cells
C12_Witness ==
    /\ cfg.kernel = "shared" /\ TiledDone /\ Len(particles) = 1
    /\ cfg.do_ionization /\ particles[1].ion_lev = 2
    /\ cfg.dxi # <<1, 1, 1>>
    /\ SumCells(Deposited, DepositedCells) = 2 * wqNoLevel(cfg, particles[1]) * TensorScale(cfg)
    /\ SumCells(Deposited, DepositedCells) # 0

(***************************************************************************)
(* The stencil of one particle (direct kernel).                            *)
(***************************************************************************)
\* lo: the offset of the array indices (lo.x, lo.y, lo.z), per array axis
LoSet(g) ==
    CASE g = "1D_Z" -> {<<0, 0, 0>>, <<0 - 1, 0, 0>>}
      [] Is2D(g)    -> {<<0, 0, 0>>, <<0 - 1, 2, 0>>}
      [] g = "3D"   -> {<<0, 0, 0>>, <<0 - 1, 2, 1>>}

StencilCfgs ==
    { [c EXCEPT !.lo = l] :
        c \in { d \in SingleCfgs : ~d.do_ionization /\ d.dxi = <<1, 1, 1>> },
        l \in UNION { LoSet(g) : g \in {"1D_Z", "XZ", "RZ", "3D"} } }

\* a 1D node-centred grid of ten unit cells, order 1, unit charge
LineCfg ==
    [DepositCfg("direct", "1D_Z", 1, <<NODE, CELL, CELL>>, <<1, 1, 1>>, 1, 1, FALSE, "zero")
        EXCEPT !.ncell = <<10, 1, 1>>]

LineParticles == { Particle(0, 0, z, 1, 0) : z \in 0..(10 * Q - 1) }

InitStencil ==
    \/ \E c \in { d \in StencilCfgs : d.lo \in LoSet(d.geom) } :
          \E p \in { r \in SingleParticles(c) : r.wp = 1 \/ c.geom = "3D" } :
              DirectStart(c, <<p>>)
    \/ \E p \in LineParticles : DirectStart(LineCfg, <<p>>)

SpecStencil == InitStencil /\ [][NextDirect]_vars

\* the shape factor of the array axis a (x, then y in 3D, z last)
AxisShape(c, p, a) ==
    IF a = WARPX_ZINDEX(c.geom) THEN sfz(c, p)
    ELSE IF a = 1 THEN sfx(c, p)
    ELSE sfy(c, p)

\* the k+1 consecutive indices from the base index, offset by lo
AxisRange(c, p, a) ==
    (c.lo[a] + AxisShape(c, p, a).j)..(c.lo[a] + AxisShape(c, p, a).j + c.depos_order)

InStencil(c, p, idx) ==
    \A a \in Axes : IF Active(c, a) THEN idx[a] \in AxisRange(c, p, a) ELSE idx[a] = 0

\* the adds the worker of particle ip has issued
Issued(ip) == { Add(cfg, particles[ip], n) : n \in 0..(pc[ip] - 1) }

\* C13: for order k in {0,1,2,3} one particle's deposit addresses exactly k+1
\* consecutive grid points per axis, starting at the base index returned by
\* the shape-factor evaluator offset by lo, and each of the k+1 weights lies
\* in [0,1].
C13_Stencil ==
    (cfg.kernel = "direct" /\ Len(particles) = 1) =>
        LET p == particles[1]
        IN  /\ pc[1] > 0 => InStencil(cfg, p, Add(cfg, p, pc[1] - 1).idx)
            /\ DirectDone =>
                  /\ \A idx \in ArrCells(cfg) :
                        (cfg.rho0 = "zero" /\ ~InStencil(cfg, p, <<idx[1], idx[2], idx[3]>>))
                            => rho_arr[idx] = 0
                  /\ \A a \in Axes : Active(cfg, a) =>
                        { x.idx[a] : x \in Issued(1) } = AxisRange(cfg, p, a)
                  /\ Cardinality({ x.idx : x \in { y \in Issued(1) : y.idx[4] = 0 } })
                        = NPts(cfg)
            /\ \A a \in Axes : Active(cfg, a) =>
                  /\ Len(AxisShape(cfg, p, a).s) = cfg.depos_order + 1
                  /\ \A i \in 1..(cfg.depos_order + 1) :
                        /\ AxisShape(cfg, p, a).s[i] >= 0
                        /\ AxisShape(cfg, p, a).s[i] <= ShapeScale(cfg.depos_order)

\* a cubic-order particle off the grid points was deposited on an array whose
\* indices are offset by lo, and every point of its stencil got a share
C13_Witness ==
    /\ cfg.kernel = "direct" /\ DirectDone /\ Len(particles) = 1
    /\ cfg.depos_order = 3 /\ cfg.geom = "XZ"
    /\ cfg.lo = <<0 - 1, 2, 0>>
    /\ particles[1].xp % Q # 0 /\ particles[1].zp % Q # 0
    /\ Cardinality({ idx \in ArrCells(cfg) : rho_arr[idx] # 0 }) = 16

\* C14: in 1D with a node-centred array, unit cell size, lo = 0 and order 1, a
\* particle of weight 1 and charge 1 at grid coordinate n + f (0 <= f < 1)
\* deposits 1 - f at cell n and f at cell n+1 and changes no other cell
\* (values over Q, f in 1/Q cells); 3.25 gives 0.75 at 3 and 0.25 at 4.
C14_LinearDeposit ==
    (/\ cfg.kernel = "direct" /\ DirectDone /\ Len(particles) = 1
     /\ cfg.geom = "1D_Z" /\ cfg.rho_type[1] = NODE /\ cfg.depos_order = 1
     /\ cfg.dxi = <<1, 1, 1>> /\ cfg.lo = <<0, 0, 0>> /\ cfg.q = 1 /\ ~cfg.do_ionization
     /\ cfg.rho0 = "zero" /\ particles[1].wp = 1)
        => LET n == particles[1].zp \div Q
               f == particles[1].zp - n * Q
           IN  \A idx \in ArrCells(cfg) :
                  rho_arr[idx] = IF idx = <<n, 0, 0, 0>> THEN Q - f
                                 ELSE IF idx = <<n + 1, 0, 0, 0>> THEN f
                                 ELSE 0

\* the particle at 3.25 on the ten-cell grid: 0.75 at cell 3, 0.25 at cell 4
C14_Witness ==
    /\ cfg.kernel = "direct" /\ DirectDone /\ Len(particles) = 1
    /\ cfg.geom = "1D_Z" /\ cfg.ncell = <<10, 1, 1>> /\ cfg.depos_order = 1
    /\ 4 * particles[1].zp = 13 * Q
    /\ 4 * rho_arr[<<3, 0, 0, 0>>] = 3 * Q
    /\ 4 * rho_arr[<<4, 0, 0, 0>>] = Q
    /\ SumCells(rho_arr, ArrCells(cfg)) = Q

(***************************************************************************)
(* The azimuthal modes of the RZ deposit (direct kernel).                  *)
(***************************************************************************)
ModeCfgs ==
    { DepositCfg("direct", "RZ", o, ty, <<1, 1, 1>>, 0 - 1, m, FALSE, "zero") :
        o \in Orders("RZ"), ty \in RhoTypes("RZ"), m \in 1..(MaxModes + 1) }

ModeParticles ==
    { Particle(xy[1], xy[2], z, 1, 0) : xy \in RZPairs(1), z \in {1} }

InitModes == \E c \in ModeCfgs : \E p \in ModeParticles : DirectStart(c, <<p>>)

SpecModes == InitModes /\ [][NextDirect]_vars

\* cos(theta) and sin(theta) over AngDen; theta = 0 when the radius is 0
CosTheta(p) == IF rp(p) > 0 THEN (AngDen * p.xp) \div rp(p) ELSE AngDen
SinTheta(p) == IF rp(p) > 0 THEN (AngDen * p.yp) \div rp(p) ELSE 0

\* cos(m*theta) and sin(m*theta) over AngDen^m, by the multiple-angle formulas
CosM(p, m) ==
    CASE m = 1 -> CosTheta(p)
      [] m = 2 -> CosTheta(p) * CosTheta(p) - SinTheta(p) * SinTheta(p)
      [] m = 3 -> 4 * CosTheta(p) * CosTheta(p) * CosTheta(p)
                    - 3 * CosTheta(p) * AngDen * AngDen

SinM(p, m) ==
    CASE m = 1 -> SinTheta(p)
      [] m = 2 -> 2 * CosTheta(p) * SinTheta(p)
      [] m = 3 -> 3 * SinTheta(p) * AngDen * AngDen
                    - 4 * SinTheta(p) * SinTheta(p) * SinTheta(p)

\* sx[ix]*sz[iz]*wq at the grid point (idx[1], idx[2]), 0 outside the stencil
PointWeight(c, p, idx) ==
    IF InStencil(c, p, <<idx[1], idx[2], 0>>)
    THEN sfx(c, p).s[idx[1] - c.lo[1] - sfx(c, p).j + 1]
           * sfz(c, p).s[idx[2] - c.lo[2] - sfz(c, p).j + 1] * wq(c, p)
    ELSE 0

\* C15: in RZ with n_rz_azimuthal_modes = M the particle adds, at each point of
\* its stencil, sx*sz*wq to component 0 and, for each mode m in 1..M-1,
\* 2*sx*sz*wq*cos(m*theta) to component 2m-1 and 2*sx*sz*wq*sin(m*theta) to
\* component 2m (theta = 0 at radius 0); for theta = 0 the mode-1 cosine
\* component gets 2*sx*sz*wq and the sine component 0.
C15_ModeDeposit ==
    (/\ cfg.kernel = "direct" /\ DirectDone /\ Len(particles) = 1
     /\ cfg.geom = "RZ" /\ cfg.rho0 = "zero")
        => LET p == particles[1]
           IN  \A idx \in ArrCells(cfg) :
                  LET t == PointWeight(cfg, p, idx)
                      m == (idx[4] + 1) \div 2
                  IN  /\ idx[4] = 0 => rho_arr[idx] = t
                      /\ (idx[4] > 0 /\ idx[4] = 2 * m - 1) => rho_arr[idx] = 2 * t * CosM(p, m)
                      /\ (idx[4] > 0 /\ idx[4] = 2 * m) => rho_arr[idx] = 2 * t * SinM(p, m)
                      /\ (p.yp = 0 /\ p.xp >= 0 /\ idx[4] = 1) => rho_arr[idx] = 2 * t * AngDen
                      /\ (p.yp = 0 /\ p.xp >= 0 /\ idx[4] = 2) => rho_arr[idx] = 0

\* a particle at theta = pi/2 deposited with three modes: the mode-2 cosine
\* component holds -2*sx*sz*wq and the mode-1 cosine component 0
C15_Witness ==
    /\ cfg.kernel = "direct" /\ DirectDone /\ Len(particles) = 1
    /\ cfg.geom = "RZ" /\ cfg.n_rz_azimuthal_modes = 3
    /\ particles[1].xp = 0 /\ particles[1].yp > 0
    /\ \E idx \in ArrCells(cfg) :
          /\ idx[4] = 3
          /\ rho_arr[idx] # 0
          /\ rho_arr[idx] = 0 - 2 * AngDen * AngDen * rho_arr[<<idx[1], idx[2], 0, 0>>]
          /\ rho_arr[<<idx[1], idx[2], 0, 1>>] = 0
          /\ rho_arr[<<idx[1], idx[2], 0, 2>>] = 2 * AngDen * rho_arr[<<idx[1], idx[2], 0, 0>>]

(***************************************************************************)
(* The host side of the tiled kernel on a CUDA/HIP build: the shared       *)
(* memory check and the launch.                                            *)
(***************************************************************************)
\* sizeof(amrex::Real), in bytes
SizeofReal == 8

\* shared_mem_bytes = npts*sizeof(amrex::Real)
shared_mem_bytes(c) == SharedPts(c) * SizeofReal

\* the check never fails
FitsAlways(c) == TRUE

\* shared_mem_bytes <= max_shared_mem_bytes
FitsSharedMemory(c) == shared_mem_bytes(c) <= c.max_shared_mem_bytes

HostAt(at, msg) == [at |-> at, msg |-> msg]

\* WARPX_ALWAYS_ASSERT_WITH_MESSAGE(shared_mem_bytes <= max_shared_mem_bytes, ...)
AbortTileTooBig ==
    /\ cfg.kernel = "shared"
    /\ host.at = "entry"
    /\ ~FitsSharedMemory(cfg)
    /\ host' = HostAt("aborted", "Tile size too big for GPU shared memory charge deposition")
    /\ UNCHANGED <<cfg, particles, rho_arr, pc, shared, tpc, stray, field, ppc>>

\* amrex::launch(nblocks, threads_per_block, shared_mem_bytes, gpuStream(), ...)
Launch ==
    /\ cfg.kernel = "shared"
    /\ host.at = "entry"
    /\ FitsSharedMemory(cfg)
    /\ host' = HostAt("launched", "")
    /\ \E g \in Garbage :
          shared' = [b \in Blocks |-> [i \in 0..(SharedPts(cfg) - 1) |-> g]]
    /\ tpc' = [b \in Blocks |-> [t \in Threads |-> [ph |-> "start", n |-> 0, m |-> 0]]]
    /\ UNCHANGED <<cfg, particles, rho_arr, pc, stray, field, ppc>>

\* sharedMemPerBlock() of the modelled devices, in bytes
SharedMemPerBlock == { 3 * SizeofReal, 4 * SizeofReal, 6 * SizeofReal }

LaunchStart(c, ps, maxb) ==
    /\ cfg = [x \in DOMAIN c \cup {"offsets", "permutation", "max_shared_mem_bytes"} |->
                IF x = "offsets" THEN Offsets(c, ps)
                ELSE IF x = "permutation" THEN Permutation(c, ps)
                ELSE IF x = "max_shared_mem_bytes" THEN maxb
                ELSE c[x]]
    /\ particles = ps
    /\ rho_arr = [idx \in ArrCells(c) |-> Rho0(c, idx)]
    /\ host = HostAt("entry", "")
    /\ shared = Idle /\ tpc = Idle /\ stray = {}
    /\ pc = Idle /\ field = Idle /\ ppc = Idle

InitLaunch ==
    \E c \in TiledCfgs : \E p \in TiledParticles(c) : \E maxb \in SharedMemPerBlock :
        LaunchStart(c, <<p>>, maxb)

NextLaunch ==
    \/ AbortTileTooBig
    \/ Launch
    \/ host.at = "launched" /\ \E b \in Blocks : \E t \in Threads : Begin(b, t)
    \/ host.at = "launched" /\ \E b \in Blocks : \E t \in Threads : ZeroStep(b, t)
    \/ host.at = "launched" /\ \E b \in Blocks : \E t \in Threads : SyncThreads1(b, t)
    \/ host.at = "launched" /\ \E b \in Blocks : \E t \in Threads : ScatterStep(b, t)
    \/ host.at = "launched" /\ \E b \in Blocks : \E t \in Threads : SyncThreads2(b, t)
    \/ host.at = "launched" /\ \E b \in Blocks : \E t \in Threads : MergeStep(b, t)

SpecLaunch == InitLaunch /\ [][NextLaunch]_vars

\* C16: when the buffer of a maximum-size tile (the tile extent converted to
\* the array staggering and grown by the order) needs more bytes than the
\* shared memory of a block, the kernel aborts with a fatal error before the
\* launch: no thread ever starts and rho_arr keeps its values.
C16_AbortBeforeLaunch ==
    SharedPts(cfg) * SizeofReal > cfg.max_shared_mem_bytes =>
        /\ host.at \in {"entry", "aborted"}
        /\ host.at = "aborted" => host.msg # ""
        /\ tpc = Idle /\ shared = Idle /\ stray = {}
        /\ rho_arr = [idx \in ArrCells(cfg) |-> Rho0(cfg, idx)]

\* the kernel has aborted on a tile one point too big for the device
C16_Witness ==
    /\ host.at = "aborted"
    /\ SharedPts(cfg) * SizeofReal = cfg.max_shared_mem_bytes + SizeofReal
    /\ Len(particles) = 1
    /\ tpc = Idle
    /\ \E idx \in ArrCells(cfg) : rho_arr[idx] # 0

(***************************************************************************)
(* The tiled kernel on a build without CUDA and HIP: a ParallelFor over    *)
(* ip_orig in [0, np_to_deposit) that scatters into rho_arr itself.        *)
(***************************************************************************)
\* every worker takes the first entry of the permutation
CpuParticleFirst(ip_orig) == particles[cfg.permutation[1]]

\* const unsigned int ip = permutation[ip_orig]
CpuParticle(ip_orig) == particles[cfg.permutation[ip_orig]]

\* amrex::Array4<amrex::Real> const &buf = rho_arr; then the adds into buf
CpuScatterStep(ip_orig) ==
    /\ cfg.kernel = "shared_cpu"
    /\ pc[ip_orig] < NAdds(cfg)
    /\ LET a == Add(cfg, CpuParticle(ip_orig), pc[ip_orig])
       IN  rho_arr' = AtomicAddNoRet(rho_arr, a.idx, a.v)
    /\ pc' = [pc EXCEPT ![ip_orig] = @ + 1]
    /\ UNCHANGED <<cfg, particles, shared, tpc, stray, field, ppc, host>>

\* the entries of a_bins.permutationPtr(): any map of [0, np_to_deposit)
PermutationMaps(np) == [1..np -> 1..np]

IsBijection(f) == \A i \in DOMAIN f : \E j \in DOMAIN f : f[j] = i

CpuStart(c, ps, perm) ==
    /\ cfg = [x \in DOMAIN c \cup {"permutation", "np_to_deposit"} |->
                IF x = "permutation" THEN perm
                ELSE IF x = "np_to_deposit" THEN Len(ps)
                ELSE IF x = "kernel" THEN "shared_cpu"
                ELSE c[x]]
    /\ particles = ps
    /\ rho_arr = [idx \in ArrCells(c) |-> Rho0(c, idx)]
    /\ pc = [ip_orig \in 1..Len(ps) |-> 0]
    /\ shared = Idle /\ tpc = Idle /\ stray = Idle /\ field = Idle /\ ppc = Idle
    /\ host = Idle

InitCpu ==
    \E c \in { d \in DirectCfgs : d.geom = "RZ" => d.depos_order = 0 } :
        \E ps \in Batches(ConcParticles(c), MaxNp) :
            \/ DirectStart(c, ps)
            \/ \E perm \in PermutationMaps(Len(ps)) : CpuStart(c, ps, perm)

NextCpu ==
    \/ \E ip \in DOMAIN pc : DepositStep(ip)
    \/ \E ip_orig \in DOMAIN pc : CpuScatterStep(ip_orig)

SpecCpu == InitCpu /\ [][NextCpu]_vars

\* the grid doChargeDepositionShapeN leaves for the batch
DirectGrid(c, ps) ==
    [idx \in ArrCells(c) |-> Rho0(c, idx) + SumBatch(c, ps, idx, Len(ps))]

\* C17: on a build without CUDA and HIP doChargeDepositionSharedShapeN
\* scatters each of the np_to_deposit permuted particle indices into rho_arr
\* itself (no private buffer), and for a permutation that is a bijection on
\* [0, np_to_deposit) the final grid equals the grid doChargeDepositionShapeN
\* produces for the same batch.
C17_CpuEqualsDirect ==
    /\ (cfg.kernel = "direct" /\ DirectDone) => rho_arr = DirectGrid(cfg, particles)
    /\ cfg.kernel = "shared_cpu" =>
          /\ shared = Idle /\ tpc = Idle
          /\ (DirectDone /\ IsBijection(cfg.permutation))
                => rho_arr = DirectGrid(cfg, particles)

\* two distinct particles deposited through the swapping permutation
C17_Witness ==
    /\ cfg.kernel = "shared_cpu" /\ DirectDone
    /\ cfg.np_to_deposit = 2 /\ cfg.permutation = <<2, 1>>
    /\ particles[1] # particles[2]
    /\ rho_arr = DirectGrid(cfg, particles)
    /\ rho_arr # DirectGrid(cfg, <<particles[2], particles[2]>>)

(***************************************************************************)
(* The cost ledger of the direct kernel: cost_real, the KernelTimer of     *)
(* each worker, the stream synchronization and the merge into *cost;       *)
(* host.arena holds the live allocations of The_Managed_Arena().           *)
(***************************************************************************)
\* LoadBalanceCostsUpdateAlgo
CostsUpdateAlgos == {"Timers", "Heuristic", "GpuClock"}

\* #if defined(WARPX_USE_GPUCLOCK) ... load_balance_costs_update_algo == GpuClock
GpuClockOn(c) == c.use_gpuclock /\ c.load_balance_costs_update_algo = "GpuClock"

\* do_timing of the KernelTimer, and the condition of the merge:
\* cost && load_balance_costs_update_algo == GpuClock
CostOn(c) == GpuClockOn(c) /\ c.cost_supplied

\* clock cycles one worker can measure
Elapsed == {1, 2}

\* the merge does not wait for the workers
SynchronizedAlways == TRUE

\* amrex::Gpu::streamSynchronize() has returned: every worker has finished
Synchronized == DirectDone

\* cost_real = alloc(sizeof(Real)); *cost_real = 0.; then amrex::ParallelFor(...)
Dispatch ==
    /\ host.at = "entry"
    /\ host' = [host EXCEPT !.at = "dispatched",
                            !.cost_real = IF GpuClockOn(cfg) THEN 0 ELSE Idle,
                            !.arena = IF GpuClockOn(cfg) THEN @ \cup {"cost_real"} ELSE @]
    /\ UNCHANGED <<cfg, particles, rho_arr, pc, shared, tpc, stray, field, ppc>>

\* one atomic add of worker ip; the KernelTimer of the worker stops when the
\* worker ends and adds its cycles to *cost_real
TimedDepositStep(ip) ==
    /\ host.at # "entry"
    /\ pc[ip] < NAdds(cfg)
    /\ LET a == Add(cfg, particles[ip], pc[ip])
       IN  rho_arr' = AtomicAddNoRet(rho_arr, a.idx, a.v)
    /\ pc' = [pc EXCEPT ![ip] = @ + 1]
    /\ IF CostOn(cfg) /\ pc[ip] = NAdds(cfg) - 1
       THEN \E e \in Elapsed :
               host' = [host EXCEPT !.cost_real = @ + e, !.wt[ip] = e]
       ELSE UNCHANGED host
    /\ UNCHANGED <<cfg, particles, shared, tpc, stray, field, ppc>>

\* if (cost && algo == GpuClock) { streamSynchronize(); *cost += *cost_real; free }
MergeCost ==
    /\ host.at = "dispatched"
    /\ CostOn(cfg)
    /\ Synchronized
    /\ host' = [host EXCEPT !.at = "returned", !.cost = @ + host.cost_real,
                            !.cost_real = Idle, !.arena = @ \ {"cost_real"}]
    /\ UNCHANGED <<cfg, particles, rho_arr, pc, shared, tpc, stray, field, ppc>>

\* the kernel returns without touching *cost
ReturnNoCost ==
    /\ host.at = "dispatched"
    /\ ~CostOn(cfg)
    /\ host' = [host EXCEPT !.at = "returned"]
    /\ UNCHANGED <<cfg, particles, rho_arr, pc, shared, tpc, stray, field, ppc>>

CostCfgs ==
    { [x \in DOMAIN c \cup {"use_gpuclock", "load_balance_costs_update_algo",
                             "cost_supplied", "cost0"} |->
          IF x = "use_gpuclock" THEN g
          ELSE IF x = "load_balance_costs_update_algo" THEN algo
          ELSE IF x = "cost_supplied" THEN sup
          ELSE IF x = "cost0" THEN 3
          ELSE c[x]] :
        c \in { d \in DirectCfgs : d.geom = "1D_Z" /\ d.depos_order <= 1 },
        g \in BOOLEAN, algo \in CostsUpdateAlgos, sup \in BOOLEAN }

CostStart(c, ps) ==
    /\ cfg = c
    /\ particles = ps
    /\ rho_arr = [idx \in ArrCells(c) |-> Rho0(c, idx)]
    /\ pc = [ip \in DOMAIN ps |-> 0]
    /\ host = [at |-> "entry", cost |-> IF c.cost_supplied THEN c.cost0 ELSE Idle,
               cost_real |-> Idle, wt |-> [ip \in DOMAIN ps |-> 0], arena |-> {}]
    /\ shared = Idle /\ tpc = Idle /\ stray = Idle /\ field = Idle /\ ppc = Idle

InitCost ==
    \E c \in CostCfgs : \E ps \in Batches(ConcParticles(c), MaxNp) : CostStart(c, ps)

NextCost ==
    \/ Dispatch
    \/ \E ip \in DOMAIN pc : TimedDepositStep(ip)
    \/ MergeCost
    \/ ReturnNoCost

SpecCost == InitCost /\ [][NextCost]_vars

RECURSIVE SumSeq(_, _)
SumSeq(f, n) == IF n = 0 THEN 0 ELSE f[n] + SumSeq(f, n - 1)

\* C18: with the hardware timer selected on a build that has it and a ledger
\* supplied, the ledger keeps its value until the kernel returns, and then
\* holds its value plus the cycles of all the workers, every worker having
\* finished; with no measurement the ledger keeps its value throughout.
C18_LedgerMergedOnce ==
    /\ host.at # "returned" => host.cost = (IF cfg.cost_supplied THEN cfg.cost0 ELSE Idle)
    /\ (host.at = "returned" /\ cfg.cost_supplied /\ cfg.use_gpuclock
          /\ cfg.load_balance_costs_update_algo = "GpuClock") =>
            /\ DirectDone
            /\ \A ip \in DOMAIN pc : host.wt[ip] \in Elapsed
            /\ host.cost = cfg.cost0 + SumSeq(host.wt, Len(particles))
    /\ (host.at = "returned" /\ cfg.cost_supplied
          /\ ~(cfg.use_gpuclock /\ cfg.load_balance_costs_update_algo = "GpuClock")) =>
            host.cost = cfg.cost0
    /\ ~cfg.cost_supplied => host.cost = Idle

\* two workers measured different cycle counts and the kernel has returned
C18_Witness ==
    /\ host.at = "returned" /\ CostOn(cfg)
    /\ Len(particles) = 2
    /\ host.wt[1] # host.wt[2]
    /\ host.cost = cfg.cost0 + 3

(***************************************************************************)
(* SetNeumannOnPEC: one call, and the pass over the cells of the domain.   *)
(***************************************************************************)
\* the cell one step inside the domain from iv along idim
OneStepInside(iv, idim, iside) == [iv EXCEPT ![idim] = @ + (IF iside = 0 THEN 1 ELSE 0 - 1)]

\* iteration j of the running call was for a PEC side the cell lies on
OnBoundaryIter(j) ==
    /\ isPECBoundary(cfg, IterDim(j), IterSide(j))
    /\ mirrorfac(cfg, IterDim(j), IterSide(j)) - ppc.cell[IterDim(j)] = ppc.cell[IterDim(j)]

\* C19: SetNeumannOnPEC on a cell that lies on a PEC boundary (its mirror index
\* is the cell itself) sets the cell to the value of the adjacent cell one
\* step inside the domain along that axis (index +1 on the low side, -1 on
\* the high side) when that neighbour is in the array box, changes no other
\* cell, and never sets the cell to zero.
C19_NeumannBoundaryCell ==
    (cfg.kernel = "neumann" /\ ppc.k > 0 /\ OnBoundaryIter(ppc.k - 1)) =>
        LET j  == ppc.k - 1
            nb == OneStepInside(ppc.cell, IterDim(j), IterSide(j))
        IN  /\ nb \in FabCells(cfg) =>
                  /\ field[ppc.cell] = ppc.before[nb]
                  /\ ppc.before[nb] # 0 => field[ppc.cell] # 0
            /\ nb \notin FabCells(cfg) => field[ppc.cell] = ppc.before[ppc.cell]
            /\ \A iv \in FabCells(cfg) \ {ppc.cell} : field[iv] = ppc.before[iv]

\* a cell on the high PEC boundary has just taken the value of its neighbour
\* at index -1, which differs from the value it held
C19_Witness ==
    /\ cfg.kernel = "neumann" /\ ppc.k > 0 /\ OnBoundaryIter(ppc.k - 1)
    /\ IterSide(ppc.k - 1) = 1
    /\ field[ppc.cell] = ppc.before[OneStepInside(ppc.cell, IterDim(ppc.k - 1), 1)]
    /\ field[ppc.cell] # ppc.before[ppc.cell]
    /\ field[ppc.cell] # 0

\* the pass: SetNeumannOnPEC called once on every cell of the domain, the
\* calls one after the other; in 1D in any order, in XZ along a sweep
PassCfgs ==
    { [x \in DOMAIN c \cup {"order"} |-> IF x = "order" THEN o ELSE c[x]] :
        c \in NeumannCfgs("1D_Z"), o \in {"any"} }
    \cup
    { [x \in DOMAIN c \cup {"order"} |-> IF x = "order" THEN o ELSE c[x]] :
        c \in NeumannCfgs("XZ"), o \in {"rows", "cols_back"} }

\* the cell may be called next: not called yet and, in a sweep, the first left
MayCall(c, called, iv) ==
    /\ iv \in DomainCells(c) \ called
    /\ c.order # "any" =>
          \A other \in DomainCells(c) \ called : SweepRank(c, iv) <= SweepRank(c, other)

PassStart(c, iv) ==
    /\ cfg = c
    /\ MayCall(c, {}, iv)
    /\ field = [x \in FabCells(c) |-> Field0(c, x)]
    /\ ppc = [cell |-> iv, phase |-> 1, k |-> 0, before |-> <<>>, added |-> <<>>,
              mirror |-> <<>>, touched |-> {}, done |-> {}]
    /\ particles = Idle /\ rho_arr = Idle /\ pc = Idle
    /\ shared = Idle /\ tpc = Idle /\ stray = Idle /\ host = Idle

\* the call on the current cell has returned and the next call begins
NextCell(iv) ==
    /\ cfg.kernel = "neumann"
    /\ ppc.k = NIter(cfg)
    /\ MayCall(cfg, ppc.done \cup {ppc.cell}, iv)
    /\ ppc' = [ppc EXCEPT !.cell = iv, !.k = 0, !.before = <<>>, !.mirror = <<>>,
                          !.touched = {}, !.done = @ \cup {ppc.cell}]
    /\ UNCHANGED <<cfg, particles, rho_arr, pc, shared, tpc, stray, field, host>>

InitPass == \E c \in PassCfgs : \E iv \in DomainCells(c) : PassStart(c, iv)

NextPass ==
    \/ NeumannStep
    \/ \E iv \in DomainCells(cfg) : NextCell(iv)

SpecPass == InitPass /\ [][NextPass]_vars

PassDone == ppc.k = NIter(cfg) /\ ppc.done \cup {ppc.cell} = DomainCells(cfg)

\* the cell of the array at the PEC boundary d = <<idim, iside>> in line with
\* the guard cell g: on the boundary plane for a node-centred axis, the first
\* cell inside for a cell-centred one
BoundaryCell(c, g, d) ==
    [g EXCEPT ![d[1]] = IF d[2] = 0 THEN c.dom_lo[d[1]]
                        ELSE c.dom_hi[d[1]] + c.is_nodal[d[1]]]

\* the guard cells beyond the PEC boundary d, in line with cells of the domain
GuardCellsBeyond(c, d) ==
    { g \in FabCells(c) :
        /\ BoundaryCell(c, g, d) \in DomainCells(c)
        /\ IF d[2] = 0 THEN g[d[1]] < c.dom_lo[d[1]]
                       ELSE g[d[1]] > c.dom_hi[d[1]] + c.is_nodal[d[1]] }

\* C20 as stated: after the Neumann pass every guard cell beyond a PEC
\* boundary holds the value of the boundary cell.
C20_GuardHoldsBoundaryValue ==
    PassDone =>
        \A d \in Sides(cfg) : isPECBoundary(cfg, d[1], d[2]) =>
            \A g \in GuardCellsBeyond(cfg, d) : field[g] = field[BoundaryCell(cfg, g, d)]

\* C20: after the Neumann pass over the cells of the domain, every guard cell
\* that is the mirror image, across a PEC boundary, of a domain cell lying on
\* no PEC boundary holds the value of that cell, which the pass left as it
\* was, with no sign flip; beyond a node-centred boundary cell that lies on
\* that PEC boundary only, the first guard cell thereby equals the boundary
\* cell, both holding the value of the first cell inside.
C20_GuardHoldsMirrorValue ==
    PassDone =>
        \A m \in DomainCells(cfg) : \A d \in Sides(cfg) :
            LET g == iv_mirror(cfg, m, d[1], d[2])
                b == BoundaryCell(cfg, g, d)
            IN  (/\ isPECBoundary(cfg, d[1], d[2])
                 /\ g # m /\ g \in FabCells(cfg)
                 /\ ~OnPEC(cfg, m)) =>
                     /\ field[g] = field[m]
                     /\ field[m] = Field0(cfg, m)
                     /\ (/\ cfg.is_nodal[d[1]] = 1
                         /\ m = OneStepInside(b, d[1], d[2])
                         /\ \A e \in Sides(cfg) \ {d} :
                               ~(isPECBoundary(cfg, e[1], e[2])
                                   /\ iv_mirror(cfg, b, e[1], e[2]) = b))
                           => field[g] = field[b]

\* the pass is over; beyond a node-centred low PEC boundary the first guard
\* cell equals the boundary cell and the second holds the value of the second
\* cell inside, which is another value
C20_Witness ==
    /\ PassDone
    /\ cfg.geom = "1D_Z" /\ cfg.is_nodal[1] = 1 /\ cfg.pec_lo[1]
    /\ field[<<cfg.dom_lo[1] - 1, 0, 0>>] = field[<<cfg.dom_lo[1], 0, 0>>]
    /\ field[<<cfg.dom_lo[1] - 2, 0, 0>>] = field[<<cfg.dom_lo[1] + 2, 0, 0>>]
    /\ field[<<cfg.dom_lo[1] - 2, 0, 0>>] # field[<<cfg.dom_lo[1], 0, 0>>]

(***************************************************************************)
(* SetBfieldOnPEC: the normal component.                                   *)
(***************************************************************************)
\* the documented classification: component icomp is normal to the boundary
\* axis idim (1-based); 3D: component c to axis c; 2D: component 0 to the
\* first axis and component 2 to the second; 1D: component 2 to the axis
NormalTo(g, icomp, idim) ==
    CASE g = "3D"   -> (icomp = 0 /\ idim = 1) \/ (icomp = 1 /\ idim = 2)
                          \/ (icomp = 2 /\ idim = 3)
      [] Is2D(g)    -> (icomp = 0 /\ idim = 1) \/ (icomp = 2 /\ idim = 2)
      [] g = "1D_Z" -> icomp = 2 /\ idim = 1

\* the PEC sides the cell lies exactly on (ig = 0)
BoundaryDirs(c, iv) ==
    { d \in Sides(c) :
        /\ isPECBoundary(c, d[1], d[2])
        /\ get_cell_count_to_boundary(c.dom_lo, c.dom_hi, iv, c.is_nodal, d[1], d[2]) = 0 }

\* the cell lies on a PEC boundary in a node-staggered direction the
\* component is normal to
OnNormalPEC(c, iv) ==
    \E d \in BoundaryDirs(c, iv) :
        c.is_nodal[d[1]] = 1 /\ NormalTo(c.geom, c.icomp, d[1])

\* C21: after SetBfieldOnPEC on a cell lying exactly on a PEC boundary
\* (ig = 0) in a node-staggered direction to which the component is normal,
\* the cell holds exactly 0 whatever it held; a component tangential to the
\* boundaries the cell lies on is not zeroed, and keeps its value when the
\* cell is no guard cell of another boundary.
C21_NormalBZero ==
    (Called /\ cfg.kernel = "B") =>
        /\ OnNormalPEC(cfg, ppc.last) => field[ppc.last] = 0
        /\ (BoundaryDirs(cfg, ppc.last) # {} /\ ~OnNormalPEC(cfg, ppc.last)) =>
              /\ field[ppc.last] # 0
              /\ GuardDirs(cfg, ppc.last) = {} => field[ppc.last] = ppc.pre[ppc.last]

\* a normal component was zeroed on the boundary of a node-staggered axis
C21_Witness ==
    /\ Called /\ cfg.kernel = "B"
    /\ OnNormalPEC(cfg, ppc.last)
    /\ cfg.geom = "XZ" /\ cfg.icomp = 2
    /\ ppc.pre[ppc.last] # 0
    /\ field[ppc.last] = 0

\* the sign of the B kernel across the boundary axis idim: -1 for the normal
\* component, +1 for a tangential one
SignB(c, idim) == IF NormalTo(c.geom, c.icomp, idim) THEN 0 - 1 ELSE 1

\* the cell is zeroed as an on-boundary cell of its kernel
ZeroedOnBoundary(c, iv) ==
    \E d \in BoundaryDirs(c, iv) :
        /\ c.is_nodal[d[1]] = 1
        /\ (c.kernel = "B") = NormalTo(c.geom, c.icomp, d[1])

\* C22: after SetBfieldOnPEC on a guard cell (ig > 0) past exactly one PEC
\* boundary and not zeroed as an on-boundary cell, the cell holds the pre-call
\* value of its mirror cell for a component tangential to that boundary and
\* the negated value for the component normal to it; SetEfieldOnPEC gives the
\* opposite sign for every component, axis and side.
C22_GuardBSign ==
    (/\ Called
     /\ Cardinality(GuardDirs(cfg, ppc.last)) = 1
     /\ ~ZeroedOnBoundary(cfg, ppc.last)) =>
        LET d == CHOOSE x \in GuardDirs(cfg, ppc.last) : TRUE
            m == [ppc.last EXCEPT ![d[1]] = Reflect(cfg, d[1], d[2], ppc.last[d[1]])]
        IN  field[ppc.last] =
              (IF cfg.kernel = "B" THEN SignB(cfg, d[1]) ELSE 0 - SignB(cfg, d[1]))
                  * ppc.pre[m]

\* twice the radius of the point i of the radial axis
Radius2(c, i) == 2 * i + (1 - c.is_nodal[1])

\* C22 (amended): as C22, except that in RZ the component 0 of a guard cell
\* past the high radial boundary holds the signed mirror value times
\* rmirror / rguard, for both kernels.
C22_GuardBSignScaled ==
    (/\ Called
     /\ Cardinality(GuardDirs(cfg, ppc.last)) = 1
     /\ ~ZeroedOnBoundary(cfg, ppc.last)) =>
        LET d == CHOOSE x \in GuardDirs(cfg, ppc.last) : TRUE
            m == [ppc.last EXCEPT ![d[1]] = Reflect(cfg, d[1], d[2], ppc.last[d[1]])]
            s == IF cfg.kernel = "B" THEN SignB(cfg, d[1]) ELSE 0 - SignB(cfg, d[1])
        IN  IF cfg.geom = "RZ" /\ cfg.icomp = 0 /\ d = <<1, 1>>
            THEN field[ppc.last] * Radius2(cfg, ppc.last[1])
                    = s * Radius2(cfg, m[1]) * ppc.pre[m]
            ELSE field[ppc.last] = s * ppc.pre[m]

\* in RZ a radial guard cell of Br got the negated mirror value scaled by
\* rmirror / rguard, which is not the negated mirror value
C22_Witness ==
    /\ Called /\ cfg.kernel = "B" /\ cfg.geom = "RZ" /\ cfg.icomp = 0
    /\ GuardDirs(cfg, ppc.last) = {<<1, 1>>}
    /\ ~ZeroedOnBoundary(cfg, ppc.last)
    /\ LET m == [ppc.last EXCEPT ![1] = Reflect(cfg, 1, 1, ppc.last[1])]
       IN  /\ field[ppc.last] * Radius2(cfg, ppc.last[1])
                = 0 - Radius2(cfg, m[1]) * ppc.pre[m]
           /\ field[ppc.last] # 0 - ppc.pre[m]
           /\ field[ppc.last] # 0

(***************************************************************************)
(* The classification of the components, in every build: the loops over    *)
(* idim and iside of SetEfieldOnPEC / SetBfieldOnPEC with every side PEC,  *)
(* one iteration per step; ppc.flags holds the flag computed by each       *)
(* iteration (is_tangent_to_PEC for E, is_normal_to_PEC for B).            *)
(***************************************************************************)
ClassCfgs ==
    { [kernel |-> kernel, geom |-> g, icomp |-> icomp] :
        kernel \in {"E", "B"}, g \in {"1D_Z", "XZ", "RZ", "3D"}, icomp \in 0..2 }

ClassStart(c) ==
    /\ cfg = c
    /\ ppc = [k |-> 0, flags |-> <<>>]
    /\ particles = Idle /\ rho_arr = Idle /\ pc = Idle /\ shared = Idle
    /\ tpc = Idle /\ stray = Idle /\ field = Idle /\ host = Idle

\* one iteration of the loops: the flag of axis idim is computed
ClassifyStep ==
    /\ ppc.k < 2 * AMREX_SPACEDIM(cfg.geom)
    /\ ppc' = [k |-> ppc.k + 1,
               flags |-> Append(ppc.flags,
                            IF cfg.kernel = "E"
                            THEN is_tangent_to_PEC(cfg, (ppc.k \div 2) + 1)
                            ELSE is_normal_to_PEC(cfg, (ppc.k \div 2) + 1))]
    /\ UNCHANGED <<cfg, particles, rho_arr, pc, shared, tpc, stray, field, host>>

InitClass == \E c \in ClassCfgs : ClassStart(c)

SpecClass == InitClass /\ [][ClassifyStep]_vars

\* C23: for every icomp in {0,1,2} and boundary axis idim the classification
\* used by SetEfieldOnPEC and SetBfieldOnPEC is the documented table: in 3D
\* component c is normal to axis c only; in 2D (XZ, RZ) component 0 is normal
\* to axis 0 only, component 2 to axis 1 only, component 1 tangential to both;
\* in 1D component 2 is normal to the single axis, components 0 and 1 are
\* tangential; and the 'normal' flag of B is the negation of the
\* 'tangential' flag of E.
C23_Classification ==
    \A k \in 1..Len(ppc.flags) :
        LET idim == ((k - 1) \div 2) + 1
        IN  /\ ppc.flags[k] = IF cfg.kernel = "E"
                              THEN ~NormalTo(cfg.geom, cfg.icomp, idim)
                              ELSE NormalTo(cfg.geom, cfg.icomp, idim)
            /\ is_normal_to_PEC(cfg, idim) = ~is_tangent_to_PEC(cfg, idim)

\* in a 2D build the component 2 was found normal to the second axis by the
\* B kernel, after being found tangential to the first
C23_Witness ==
    /\ cfg.kernel = "B" /\ cfg.geom = "RZ" /\ cfg.icomp = 2
    /\ Len(ppc.flags) = 4
    /\ ~ppc.flags[1] /\ ppc.flags[3]
    /\ ~is_tangent_to_PEC(cfg, 2)

(***************************************************************************)
(* Which particles each worker of the tiled kernel scatters.               *)
(***************************************************************************)
\* the slice of tile b in the permutation, and the part of it at stride
\* BlockDim from worker t
TileSlice(b) == cfg.offsets[b]..(cfg.offsets[b + 1] - 1)
Strided(b, t) == { i \in TileSlice(b) : (i - cfg.offsets[b]) % BlockDim = t }

\* the slice positions worker t of tile b has scattered completely: those of
\* its stride it has passed
Trail(b, t) ==
    CASE At(b, t).ph = "scatter" -> { i \in Strided(b, t) : i < At(b, t).n }
      [] At(b, t).ph = "merge"   -> Strided(b, t)
      [] OTHER                   -> {}

AllScattered == \A b \in Blocks : \A t \in Threads : At(b, t).ph \in {"merge", "done"}

\* the trail grows by the position a worker finishes, which is a new position
\* of its own stride, and by nothing else
TrailStep ==
    \A b \in Blocks : \A t \in Threads :
        IF At(b, t).ph = "scatter" /\ At(b, t)' # At(b, t) /\ At(b, t)'.m = 0
           /\ At(b, t)'.ph = "scatter"
        THEN /\ At(b, t).n \in Strided(b, t) \ Trail(b, t)
             /\ Trail(b, t)' = Trail(b, t) \cup {At(b, t).n}
        ELSE Trail(b, t)' = Trail(b, t)

ScatteredOnce ==
    (cfg.kernel = "shared" /\ IsBijection(cfg.permutation)
        /\ \A b \in Blocks : cfg.offsets[b] <= cfg.offsets[b + 1]) =>
        /\ \A b \in Blocks : \A t \in Threads :
              /\ At(b, t).ph = "scatter" /\ At(b, t).n < cfg.offsets[b + 1]
                    => At(b, t).n \in Strided(b, t)
              /\ \A u \in Threads \ {t} :
                    Strided(b, t) \cap Strided(b, u) = {}
        /\ \A b \in Blocks : UNION { Strided(b, t) : t \in Threads } = TileSlice(b)
        /\ AllScattered =>
              \A ip \in DOMAIN particles :
                  Cardinality({ x \in Blocks \X Threads \X DOMAIN cfg.permutation :
                                  /\ x[3] \in Trail(x[1], x[2])
                                  /\ cfg.permutation[x[3]] = ip }) = 1

\* batches of one particle more than a tile's group has workers, all in one
\* tile, so that a worker takes a second particle of its stride
InitStride ==
    \E ty \in {NODE} : \E tile \in 0..(NTiles - 1) :
        \E ps \in [1..(BlockDim + 1) ->
                      { Particle(0, 0, z, 1, 0) : z \in {tile * Q + 1, tile * Q + Q - 1} }] :
            TiledStart(TiledCfg("1D_Z", 1, <<ty, CELL, CELL>>, 1, <<NTiles, 1, 1>>,
                                <<1, 1, 1>>), ps, 0)

SpecStride == InitStride /\ [][NextTiled]_vars

InBox(bx, idx) == \A a \in Axes : bx.lo[a] <= idx[a] /\ idx[a] <= bx.hi[a]

\* the add a worker in the particle loop is about to issue
PendingAdd(b, t) == Add(cfg, particles[cfg.permutation[At(b, t).n]], At(b, t).m)

\* C25: in the tiled kernel every scatter add of every particle of a tile
\* addresses a cell and a component inside the tile's private buffer (the
\* tile box converted to the staggering of the array and grown by the order,
\* with one component), for every order, staggering and number of azimuthal
\* modes; and the buffer has no more points than shared memory was sized for.
C25_ScatterInsideBuffer ==
    cfg.kernel = "shared" =>
        \A b \in Blocks : \A t \in Threads :
            /\ At(b, t).ph # "start" /\ At(b, t).ph # "done"
                  => NumPts(tbx(b)) <= SharedPts(cfg)
            /\ At(b, t).ph = "scatter" /\ At(b, t).n < bin_stop(b)
                  => /\ InBox(tbx(b), PendingAdd(b, t).idx)
                     /\ PendingAdd(b, t).idx[4] = 0

\* the sum of the contributions to idx of the particles of tile b at the
\* positions i.. of its slice
RECURSIVE TileSum(_, _, _)
TileSum(b, idx, i) ==
    IF i >= cfg.offsets[b + 1] THEN 0
    ELSE SumAdds(cfg, particles[cfg.permutation[i]], idx, NAdds(cfg))
            + TileSum(b, idx, i + 1)

BufferPts(b) == 0..(NumPts(tbx(b)) - 1)

\* no add of the particle loop of tile b has been issued yet
NothingScattered(b) ==
    \A t \in Threads :
        \/ At(b, t).ph = "zero"
        \/ At(b, t).ph = "scatter" /\ At(b, t).n = cfg.offsets[b] + t /\ At(b, t).m = 0

EmptyTile(b) == cfg.offsets[b] = cfg.offsets[b + 1]

\* C26: in the tiled kernel no worker of a tile's group issues a scatter add
\* into the private buffer before every cell of the buffer has been set to
\* zero by the group, so that at merge time each buffer cell holds exactly the
\* sum of the tile's contributions to it; a tile with no particles performs
\* no write to the shared grid.
C26_ZeroBeforeScatter ==
    cfg.kernel = "shared" =>
        \A b \in Blocks :
            /\ (\E t \in Threads : At(b, t).ph = "scatter") =>
                  /\ \A u \in Threads : At(b, u).ph \in {"scatter", "merge"}
                                           \/ (At(b, u).ph = "zero"
                                                /\ At(b, u).n >= NumPts(tbx(b)))
                  /\ NothingScattered(b) => \A i \in BufferPts(b) : shared[b][i] = 0
            /\ (\E t \in Threads : At(b, t).ph = "merge") =>
                  \A i \in BufferPts(b) :
                      shared[b][i] = TileSum(b, CellAt(tbx(b), i), cfg.offsets[b])
            /\ EmptyTile(b) =>
                  /\ \A t \in Threads : At(b, t).ph \in {"start", "done"}
                  /\ (\A c \in Blocks \ {b} : \A t \in Threads : At(c, t).ph # "merge")
                        => \A idx \in ArrCells(cfg) : rho_arr[idx] = Rho0(cfg, idx)

\* a tile whose buffer held other values at launch is being merged with a
\* cell holding the contributions of its two particles, and the other tile,
\* without particles, has returned
C26_Witness ==
    /\ cfg.kernel = "shared"
    /\ \E b \in Blocks : \E e \in Blocks :
          /\ EmptyTile(e) /\ \A t \in Threads : At(e, t).ph = "done"
          /\ \A i \in DOMAIN shared[e] : shared[e][i] # 0
          /\ cfg.offsets[b + 1] - cfg.offsets[b] = 2
          /\ \A t \in Threads : At(b, t).ph = "merge"
          /\ \E i \in BufferPts(b) :
                /\ shared[b][i] # 0
                /\ shared[b][i] = TileSum(b, CellAt(tbx(b), i), cfg.offsets[b])

\* C27: for every combination of the cost pointer (null or not) and of the
\* strategy, the temporary cost accumulator allocated at the start of a
\* kernel invocation has been freed when the invocation returns: it is
\* allocated if and only if it is later freed.
C27_AccumulatorFreed ==
    host.at = "returned" => host.arena = {}

\* C28: in SetEfieldOnPEC a cell that meets the on-boundary zeroing condition
\* in one PEC direction is set to 0 even when it is at the same time a guard
\* cell (ig > 0) in another PEC direction: zeroing takes precedence over
\* mirroring and the mirror value is not used.
C28_ZeroBeforeMirror ==
    (/\ Called /\ cfg.kernel = "E"
     /\ OnTangentialPEC(cfg, ppc.last)
     /\ GuardDirs(cfg, ppc.last) # {}) =>
        /\ field[ppc.last] = 0
        /\ field[ppc.last] # SignProduct(cfg, ppc.last) * ppc.pre[MirrorCell(cfg, ppc.last)]
              \/ ppc.pre[MirrorCell(cfg, ppc.last)] = 0

\* a cell on the low boundary of the first axis and past the low boundary of
\* the second has been zeroed while its mirror cell held a non-zero value
C28_Witness ==
    /\ Called /\ cfg.kernel = "E"
    /\ OnTangentialPEC(cfg, ppc.last)
    /\ ppc.last[1] = cfg.dom_lo[1]
    /\ GuardDirs(cfg, ppc.last) = {<<2, 0>>}
    /\ ppc.pre[MirrorCell(cfg, ppc.last)] # 0
    /\ ppc.pre[ppc.last] # 0
    /\ field[ppc.last] = 0

(***************************************************************************)
(* The count to the boundary and the mirror index as functions of the      *)
(* index: one iteration (idim, iside) of the loops of SetEfieldOnPEC /     *)
(* SetBfieldOnPEC on a point at any distance from a domain of DomW cells.  *)
(***************************************************************************)
MirrorStart(lo, nodal, idim, iside, i) ==
    /\ cfg = [kernel |-> "E", geom |-> "XZ",
              dom_lo |-> <<lo, lo, 0>>, dom_hi |-> <<lo + DomW - 1, lo + DomW - 1, 0>>,
              is_nodal |-> nodal]
    /\ ppc = [at |-> "in", idim |-> idim, iside |-> iside,
              ijk_vec |-> [a \in Axes |-> IF a = idim THEN i ELSE 0],
              ig |-> 0, ijk_mirror |-> <<>>]
    /\ particles = Idle /\ rho_arr = Idle /\ pc = Idle /\ shared = Idle
    /\ tpc = Idle /\ stray = Idle /\ field = Idle /\ host = Idle

\* ig = get_cell_count_to_boundary(...); if (ig > 0) ijk_mirror[idim] = ...
MirrorStep ==
    /\ ppc.at = "in"
    /\ LET ig == get_cell_count_to_boundary(cfg.dom_lo, cfg.dom_hi, ppc.ijk_vec,
                                            cfg.is_nodal, ppc.idim, ppc.iside)
       IN  ppc' = [ppc EXCEPT !.at = "out", !.ig = ig,
                              !.ijk_mirror =
                                 IF ig > 0
                                 THEN [ppc.ijk_vec EXCEPT
                                         ![ppc.idim] = MirrorIndex(cfg, ppc.idim, ppc.iside, ig)]
                                 ELSE ppc.ijk_vec]
    /\ UNCHANGED <<cfg, particles, rho_arr, pc, shared, tpc, stray, field, host>>

InitMirror ==
    \E lo \in {0 - 1, 0, 2} : \E nodal \in Stagger("XZ") :
        \E idim \in 1..2 : \E iside \in {0, 1} :
            \E i \in (lo - DomW - 1)..(lo + 2 * DomW + 1) :
                MirrorStart(lo, nodal, idim, iside, i)

SpecMirror == InitMirror /\ [][MirrorStep]_vars

\* C29: get_cell_count_to_boundary is positive exactly for the points outside
\* the domain on the given side (low: index < dom_lo; high: index > dom_hi +
\* is_nodal), and for a guard cell at depth ig >= 1 not larger than the domain
\* width the mirror index is the reflection of the point across the boundary:
\* it lies inside the domain, at cell count -ig for a nodal axis and 1-ig for
\* a cell-centred axis, on the low and on the high side.
C29_MirrorIsReflection ==
    ppc.at = "out" =>
        LET d  == ppc.idim
            i  == ppc.ijk_vec[d]
            lo == cfg.dom_lo[d]
            hi == cfg.dom_hi[d]
            n  == cfg.is_nodal[d]
            mi == ppc.ijk_mirror[d]
        IN  /\ ppc.ig > 0 <=> IF ppc.iside = 0 THEN i < lo ELSE i > hi + n
            /\ (ppc.ig >= 1 /\ ppc.ig <= hi - lo + 1) =>
                  /\ lo <= mi /\ mi <= hi + n
                  /\ (IF ppc.iside = 0 THEN lo - mi ELSE mi - (hi + n))
                        = IF n = 1 THEN 0 - ppc.ig ELSE 1 - ppc.ig
                  /\ mi = Reflect(cfg, d, ppc.iside, i)
                  /\ \A a \in Axes \ {d} : ppc.ijk_mirror[a] = ppc.ijk_vec[a]

\* a cell-centred guard point as deep past the high boundary as the domain is
\* wide has its mirror on the first cell of the domain
C29_Witness ==
    /\ ppc.at = "out" /\ ppc.iside = 1
    /\ cfg.is_nodal[ppc.idim] = 0
    /\ ppc.ig = DomW
    /\ ppc.ijk_mirror[ppc.idim] = cfg.dom_lo[ppc.idim]
    /\ ppc.ijk_vec[ppc.idim] = cfg.dom_hi[ppc.idim] + DomW

(***************************************************************************)
(* The pass of SetRhoOrJfieldFromPEC over the cells of the domain, with    *)
(* one PEC boundary: the calls one after the other, in 1D in any order, in *)
(* XZ along a sweep.                                                       *)
(***************************************************************************)
OnePEC(c) ==
    Cardinality({ d \in SpaceDims(c) \X {0, 1} : isPECBoundary(c, d[1], d[2]) }) = 1

RhoPassCfgs ==
    { [x \in DOMAIN c \cup {"order"} |-> IF x = "order" THEN o ELSE c[x]] :
        c \in { r \in RhoCfgs("1D_Z") : OnePEC(r) }, o \in {"any"} }
    \cup
    { [x \in DOMAIN c \cup {"order"} |-> IF x = "order" THEN o ELSE c[x]] :
        c \in { r \in RhoCfgs("XZ") : OnePEC(r) }, o \in {"rows", "cols_back"} }

\* the call on the current cell has returned and the next call begins
NextRhoCell(iv) ==
    /\ cfg.kernel = "rho" /\ ppc.phase = 2
    /\ ppc.k = NIter(cfg)
    /\ MayCall(cfg, ppc.done \cup {ppc.cell}, iv)
    /\ ppc' = [ppc EXCEPT !.cell = iv, !.phase = 1, !.k = 0, !.before = <<>>,
                          !.added = <<>>, !.mirror = <<>>, !.touched = {},
                          !.done = @ \cup {ppc.cell}]
    /\ UNCHANGED <<cfg, particles, rho_arr, pc, shared, tpc, stray, field, host>>

InitRhoPass == \E c \in RhoPassCfgs : \E iv \in DomainCells(c) : PassStart(c, iv)

NextRhoPass ==
    \/ RhoAddStep
    \/ RhoLoopTwo
    \/ RhoOverwriteStep
    \/ \E iv \in DomainCells(cfg) : NextRhoCell(iv)

SpecRhoPass == InitRhoPass /\ [][NextRhoPass]_vars

RhoPassDone ==
    /\ cfg.kernel = "rho" /\ ppc.phase = 2 /\ ppc.k = NIter(cfg)
    /\ ppc.done \cup {ppc.cell} = DomainCells(cfg)

\* the array before the pass
Before(c) == [x \in FabCells(c) |-> Field0(c, x)]

\* the guard cells past the PEC boundary whose mirror cell is in the domain
FoldedGuards(c) ==
    { g \in FabCells(c) : GuardDirs(c, g) # {} /\ MirrorCell(c, g) \in DomainCells(c) }

\* the cells of the domain on the PEC boundary plane (node-centred axis)
OnBoundaryCells(c) ==
    { iv \in DomainCells(c) :
        \E d \in BoundaryDirs(c, iv) : c.is_nodal[d[1]] = 1 }

\* psign = +1 on the PEC boundary
Reflecting(c) ==
    \A d \in SpaceDims(c) \X {0, 1} :
        isPECBoundary(c, d[1], d[2]) => c.psign[d[1]][d[2] + 1] = 1

\* C30: with one PEC boundary and psign = +1, applying SetRhoOrJfieldFromPEC
\* to every cell inside the domain, in any order, makes the sum over the
\* domain cells equal to their sum before the pass plus the sum before the
\* pass of all guard cells whose mirror cell is inside the domain.
C30_DomainSumFolded ==
    (RhoPassDone /\ OnePEC(cfg) /\ Reflecting(cfg)) =>
        SumCells(field, DomainCells(cfg))
            = SumCells(Before(cfg), DomainCells(cfg))
                + SumCells(Before(cfg), FoldedGuards(cfg))

\* C30 (amended): as C30, less the values before the pass of the domain cells
\* on the PEC boundary plane of a node-centred axis, which the pass sets to 0.
C30_DomainSumFoldedLessBoundary ==
    (RhoPassDone /\ OnePEC(cfg) /\ Reflecting(cfg)) =>
        /\ SumCells(field, DomainCells(cfg))
              = SumCells(Before(cfg), DomainCells(cfg))
                  + SumCells(Before(cfg), FoldedGuards(cfg))
                  - SumCells(Before(cfg), OnBoundaryCells(cfg))
        /\ \A iv \in OnBoundaryCells(cfg) : field[iv] = 0

\* a pass over a node-centred array with PEC on the low side of the second
\* axis is complete: the boundary cells are 0 and the domain sum is short of
\* the stated one by what they held
C30_Witness ==
    /\ RhoPassDone /\ OnePEC(cfg) /\ Reflecting(cfg)
    /\ cfg.geom = "XZ" /\ cfg.pec_lo[2] /\ cfg.is_nodal[2] = 1
    /\ OnBoundaryCells(cfg) # {}
    /\ FoldedGuards(cfg) # {}
    /\ SumCells(field, DomainCells(cfg))
          < SumCells(Before(cfg), DomainCells(cfg))
              + SumCells(Before(cfg), FoldedGuards(cfg))

=============================================================================
